---- MODULE Spec2Model ----
(***************************************************************************)
(* Expression analysis pipeline of the equation visualizer:                *)
(*   text -> parseMathExpression -> {createMeshData, analyzeExpression}    *)
(* together with the App component that drives it.                         *)
(*                                                                         *)
(* Texts are sequences of one-character strings.  Numbers are JavaScript   *)
(* numbers restricted to exactly representable rationals, +/-Infinity and  *)
(* NaN; the texts and bounds used below keep every intermediate value      *)
(* exactly representable as a double, so rational arithmetic agrees with   *)
(* the floating point arithmetic of the program.                           *)
(***************************************************************************)
EXTENDS Integers, Sequences, FiniteSets, TLC

(***************************************************************************)
(* JavaScript numbers                                                      *)
(***************************************************************************)
RECURSIVE Gcd(_, _)
Gcd(a, b) == IF b = 0 THEN a ELSE Gcd(b, a % b)

AbsInt(a) == IF a < 0 THEN -a ELSE a

\* a finite number n/d in lowest terms, d > 0
Num(n, d) ==
    LET s == IF d < 0 THEN -1 ELSE 1
        g == Gcd(AbsInt(n), AbsInt(d))
    IN  [k |-> "num", n |-> (s * n) \div g, d |-> (s * d) \div g]

IntV(n)  == [k |-> "num", n |-> n, d |-> 1]
PosInf  == [k |-> "inf", n |-> 1, d |-> 1]
NegInf  == [k |-> "inf", n |-> -1, d |-> 1]
NaN     == [k |-> "nan", n |-> 0, d |-> 1]
\* a value that is not of type number (a function object such as sin)
FnVal   == [k |-> "fn", n |-> 0, d |-> 1]
\* the outcome of an evaluation that raised an exception
Thrown  == [k |-> "throw", n |-> 0, d |-> 1]

IsNumberType(v) == v.k \in {"num", "inf", "nan"}
IsThrown(v)     == v.k = "throw"
\* isFinite(v)
isFinite(v)     == v.k = "num"

\* ToNumber(v): true is 1, false is 0, undefined and objects are NaN
ToNumber(v) ==
    IF v.k \in {"num", "inf", "nan"} THEN v
    ELSE IF v.k = "bool" THEN [k |-> "num", n |-> v.n, d |-> 1]
    ELSE NaN

Sign(v) == IF v.n > 0 THEN 1 ELSE IF v.n < 0 THEN -1 ELSE 0

\* a + b on numbers
NumAdd(a, b) ==
    IF a.k = "nan" \/ b.k = "nan" THEN NaN
    ELSE IF a.k = "inf" /\ b.k = "inf" THEN (IF a.n = b.n THEN a ELSE NaN)
    ELSE IF a.k = "inf" THEN a
    ELSE IF b.k = "inf" THEN b
    ELSE Num(a.n * b.d + b.n * a.d, a.d * b.d)

\* -a
NumNeg(a) ==
    IF a.k = "nan" THEN NaN
    ELSE IF a.k = "inf" THEN [a EXCEPT !.n = -a.n]
    ELSE Num(-a.n, a.d)

\* a - b
NumSub(a, b) == NumAdd(a, NumNeg(b))

\* a * b
NumMul(a, b) ==
    IF a.k = "nan" \/ b.k = "nan" THEN NaN
    ELSE IF a.k = "inf" \/ b.k = "inf"
         THEN (IF Sign(a) = 0 \/ Sign(b) = 0 THEN NaN
               ELSE IF Sign(a) * Sign(b) > 0 THEN PosInf ELSE NegInf)
    ELSE Num(a.n * b.n, a.d * b.d)

\* a / b  (zero divisors are taken as +0)
NumDiv(a, b) ==
    IF a.k = "nan" \/ b.k = "nan" THEN NaN
    ELSE IF a.k = "inf" /\ b.k = "inf" THEN NaN
    ELSE IF a.k = "inf"
         THEN (IF Sign(b) < 0 THEN NumNeg(a) ELSE a)
    ELSE IF b.k = "inf" THEN IntV(0)
    ELSE IF b.n = 0
         THEN (IF a.n = 0 THEN NaN ELSE IF a.n > 0 THEN PosInf ELSE NegInf)
    ELSE Num(a.n * b.d, a.d * b.n)

RECURSIVE NumPowNat(_, _)
NumPowNat(a, e) == IF e = 0 THEN IntV(1) ELSE NumMul(a, NumPowNat(a, e - 1))

\* a ^ b for an integer exponent b (the texts use no other exponent)
NumPow(a, b) ==
    CASE b.k = "num" /\ b.d = 1 /\ b.n = 0 -> IntV(1)
      [] b.k = "num" /\ b.d = 1 /\ b.n > 0 -> NumPowNat(a, b.n)
      [] b.k = "num" /\ b.d = 1 /\ b.n < 0 -> NumDiv(IntV(1), NumPowNat(a, -b.n))
      [] b.k = "nan" -> NaN

\* Math.abs(a)
MathAbs(a) ==
    IF a.k = "nan" THEN NaN
    ELSE IF a.k = "inf" THEN PosInf
    ELSE Num(AbsInt(a.n), a.d)

\* a < b, false when either is NaN
NumLt(a, b) ==
    IF a.k = "nan" \/ b.k = "nan" THEN FALSE
    ELSE IF a.k = "inf" /\ b.k = "inf" THEN a.n < b.n
    ELSE IF a.k = "inf" THEN a.n < 0
    ELSE IF b.k = "inf" THEN b.n > 0
    ELSE a.n * b.d < b.n * a.d

NumGt(a, b) == NumLt(b, a)

\* a <= b, false when either is NaN
NumLe(a, b) ==
    IF a.k = "nan" \/ b.k = "nan" THEN FALSE ELSE ~NumLt(b, a)

(***************************************************************************)
(* Rounding of binary floating point.  Every arithmetic operation of the   *)
(* number type gives the exact result rounded to the nearest number with   *)
(* Precision significant bits, ties to the even significand.  The type has *)
(* 53 significant bits; the exponent range is not modelled.                *)
(***************************************************************************)
Precision == 5

\* the positive quotient n/d scaled by powers of two until its integer part
\* has exactly Precision bits: <<n, d, e>> with value (n/d) * 2^e
RECURSIVE ScaleToPrecision(_, _, _)
ScaleToPrecision(n, d, e) ==
    IF n < (2 ^ (Precision - 1)) * d THEN ScaleToPrecision(2 * n, d, e - 1)
    ELSE IF n >= (2 ^ Precision) * d THEN ScaleToPrecision(n, 2 * d, e + 1)
    ELSE <<n, d, e>>

\* n/d rounded to the nearest integer, ties to even
RoundHalfEven(n, d) ==
    IF 2 * (n % d) > d \/ (2 * (n % d) = d /\ (n \div d) % 2 = 1)
    THEN (n \div d) + 1
    ELSE n \div d

\* sign * m * 2^e
ScaledValue(sign, m, e) ==
    IF e >= 0 THEN Num(sign * m * (2 ^ e), 1) ELSE Num(sign * m, 2 ^ (-e))

RoundScaled(sign, t) == ScaledValue(sign, RoundHalfEven(t[1], t[2]), t[3])

\* the number nearest to the exact value v
Fl(v) ==
    IF v.k # "num" \/ v.n = 0 THEN v
    ELSE RoundScaled(Sign(v), ScaleToPrecision(AbsInt(v.n), v.d, 0))

\* the operators -, /, * and + of the number type
FlSub(a, b) == Fl(NumSub(a, b))
FlDiv(a, b) == Fl(NumDiv(a, b))
FlMul(a, b) == Fl(NumMul(a, b))
FlAdd(a, b) == Fl(NumAdd(a, b))

(***************************************************************************)
(* Texts: sequences of characters.  The glyphs outside ASCII are written   *)
(* by name: "TIMES" is the multiplication sign, "DIVIDE" the division      *)
(* sign, "MINUS" the minus sign U+2212, "PI" the greek letter, "SQRT" the  *)
(* root sign, "SUPMINUS" and "SUPONE" the superscripts of an inverse.      *)
(***************************************************************************)
Digits == {"0", "1", "2", "3", "4", "5", "6", "7", "8", "9"}

LowerLetters == {"a", "b", "c", "d", "e", "f", "g", "h", "i", "j", "k", "l", "m",
                 "n", "o", "p", "q", "r", "s", "t", "u", "v", "w", "x", "y", "z"}

UpperLetters == {"A", "B", "C", "D", "E", "F", "G", "H", "I", "J", "K", "L", "M",
                 "N", "O", "P", "Q", "R", "S", "T", "U", "V", "W", "X", "Y", "Z"}

\* the character class [a-zA-Z]
Letters == LowerLetters \cup UpperLetters

\* the character class \d
IsDigit(c) == c \in Digits

IsLetter(c) == c \in Letters

\* the character class \s
IsSpace(c) == c = " "

DigitValue(c) ==
    CASE c = "0" -> 0 [] c = "1" -> 1 [] c = "2" -> 2 [] c = "3" -> 3
      [] c = "4" -> 4 [] c = "5" -> 5 [] c = "6" -> 6 [] c = "7" -> 7
      [] c = "8" -> 8 [] c = "9" -> 9

DigitChar(n) ==
    CASE n = 0 -> "0" [] n = 1 -> "1" [] n = 2 -> "2" [] n = 3 -> "3"
      [] n = 4 -> "4" [] n = 5 -> "5" [] n = 6 -> "6" [] n = 7 -> "7"
      [] n = 8 -> "8" [] n = 9 -> "9"

\* String.prototype.trim
RECURSIVE TrimLeft(_)
TrimLeft(s) ==
    IF s # <<>> /\ IsSpace(Head(s)) THEN TrimLeft(Tail(s)) ELSE s

RECURSIVE TrimRight(_)
TrimRight(s) ==
    IF s # <<>> /\ IsSpace(s[Len(s)])
    THEN TrimRight(SubSeq(s, 1, Len(s) - 1)) ELSE s

trim(s) == TrimRight(TrimLeft(s))

\* String.prototype.includes for a single character
includesChar(s, c) == \E i \in 1..Len(s) : s[i] = c

\* pat occurs in s at position i
MatchAt(s, pat, i) ==
    /\ i + Len(pat) - 1 <= Len(s)
    /\ \A j \in 1..Len(pat) : s[i + j - 1] = pat[j]

\* String.prototype.includes
includes(s, pat) == \E i \in 1..(Len(s) + 1) : MatchAt(s, pat, i)

\* String.prototype.split for a single-character separator
RECURSIVE SplitFrom(_, _, _, _)
SplitFrom(s, sep, i, cur) ==
    IF i > Len(s) THEN <<cur>>
    ELSE IF s[i] = sep THEN <<cur>> \o SplitFrom(s, sep, i + 1, <<>>)
    ELSE SplitFrom(s, sep, i + 1, Append(cur, s[i]))

split(s, sep) == SplitFrom(s, sep, 1, <<>>)

\* String.prototype.replace(/pat/g, rep) for a literal pattern: the matches
\* are found left to right and do not overlap
RECURSIVE ReplaceFrom(_, _, _, _)
ReplaceFrom(s, pat, rep, i) ==
    IF i > Len(s) THEN <<>>
    ELSE IF MatchAt(s, pat, i)
         THEN rep \o ReplaceFrom(s, pat, rep, i + Len(pat))
    ELSE <<s[i]>> \o ReplaceFrom(s, pat, rep, i + 1)

replaceAll(s, pat, rep) == ReplaceFrom(s, pat, rep, 1)

\* the four character classes used by the implicit multiplication patterns
InClass(cls, c) ==
    CASE cls = "digit"       -> IsDigit(c)
      [] cls = "letter"      -> IsLetter(c)
      [] cls = "close"       -> c = ")"
      [] cls = "open"        -> c = "("
      [] cls = "letterOrOpen" -> IsLetter(c) \/ c = "("

\* String.prototype.replace(/(A)(B)/g, '$1*$2') for two one-character
\* classes A and B: a match consumes both characters
RECURSIVE StarFrom(_, _, _, _)
StarFrom(s, clsA, clsB, i) ==
    IF i > Len(s) THEN <<>>
    ELSE IF i < Len(s) /\ InClass(clsA, s[i]) /\ InClass(clsB, s[i + 1])
         THEN <<s[i], "*", s[i + 1]>> \o StarFrom(s, clsA, clsB, i + 2)
    ELSE <<s[i]>> \o StarFrom(s, clsA, clsB, i + 1)

replacePair(s, clsA, clsB) == StarFrom(s, clsA, clsB, 1)

(***************************************************************************)
(* parseMathExpression, the text rewriting part                            *)
(***************************************************************************)
\* an '=' step that compares and joins the two sides untrimmed
SplitEquationUntrimmed(cleanEquation) ==
    IF includesChar(cleanEquation, "=")
    THEN LET parts == split(cleanEquation, "=")
         IN  IF Len(parts) = 2
             THEN IF parts[1] = <<"z">> \/ parts[1] = <<"y">> \/ parts[1] = <<"f">>
                  THEN parts[2]
                  ELSE <<"(">> \o parts[1] \o <<")", " ", "-", " ", "(">>
                       \o parts[2] \o <<")">>
             ELSE cleanEquation
    ELSE cleanEquation

\* an '=' step that splits at the first '=' only, whatever follows it
SplitEquationAtFirst(cleanEquation) ==
    IF includesChar(cleanEquation, "=")
    THEN LET parts == split(cleanEquation, "=")
             left  == trim(parts[1])
             right == trim(SubSeq(cleanEquation, Len(parts[1]) + 2,
                                  Len(cleanEquation)))
         IN  IF left = <<"z">> \/ left = <<"y">> \/ left = <<"f">>
             THEN right
             ELSE <<"(">> \o left \o <<")", " ", "-", " ", "(">>
                  \o right \o <<")">>
    ELSE cleanEquation

\* "Handle equation format": the text after the '=' step
SplitEquation(cleanEquation) ==
    IF includesChar(cleanEquation, "=")
    THEN LET parts == split(cleanEquation, "=")
         IN  IF Len(parts) = 2
             THEN LET left  == trim(parts[1])
                      right == trim(parts[2])
                  IN  IF left = <<"z">> \/ left = <<"y">> \/ left = <<"f">>
                      THEN right
                      ELSE <<"(">> \o left \o <<")", " ", "-", " ", "(">>
                           \o right \o <<")">>
             ELSE cleanEquation
    ELSE cleanEquation

\* "Replace common mathematical notation"
SubstituteGlyphs(s) ==
    LET s1  == replaceAll(s,  <<"^">>, <<"^">>)
        s2  == replaceAll(s1, <<"TIMES">>, <<"*">>)
        s3  == replaceAll(s2, <<"DIVIDE">>, <<"/">>)
        s4  == replaceAll(s3, <<"MINUS">>, <<"-">>)
        s5  == replaceAll(s4, <<"PI">>, <<"p", "i">>)
        s6  == replaceAll(s5, <<"s", "i", "n", "SUPMINUS", "SUPONE">>,
                              <<"a", "s", "i", "n">>)
        s7  == replaceAll(s6, <<"c", "o", "s", "SUPMINUS", "SUPONE">>,
                              <<"a", "c", "o", "s">>)
        s8  == replaceAll(s7, <<"t", "a", "n", "SUPMINUS", "SUPONE">>,
                              <<"a", "t", "a", "n">>)
        s9  == replaceAll(s8, <<"l", "n">>, <<"l", "o", "g">>)
        s10 == replaceAll(s9, <<"SQRT">>, <<"s", "q", "r", "t">>)
    IN  s10

\* the implicit multiplication step without the pattern for ')' before a
\* letter or '('
ImplicitMultiplicationNoClose(s) ==
    LET s1 == replacePair(s,  "digit", "letter")
        s2 == replacePair(s1, "letter", "digit")
        s4 == replacePair(s2, "letter", "open")
    IN  s4

\* "Handle implicit multiplication"
ImplicitMultiplication(s) ==
    LET s1 == replacePair(s,  "digit", "letter")
        s2 == replacePair(s1, "letter", "digit")
        s3 == replacePair(s2, "close", "letterOrOpen")
        s4 == replacePair(s3, "letter", "open")
    IN  s4

\* the text handed to the host parser
Normalize(equation) ==
    ImplicitMultiplication(SubstituteGlyphs(SplitEquation(trim(equation))))

(***************************************************************************)
(* The host parser (mathjs parse), for the part of its grammar that the    *)
(* texts of this model exercise: numbers, symbols, function calls,         *)
(* parentheses, + - * / ^, unary minus and plus, implicit multiplication,  *)
(* == and assignment.  Word operators (mod, to, in, not, and, or, xor),    *)
(* decimal points and the constants pi, e, i are not used by the texts.    *)
(***************************************************************************)
\* the characters that form one-character delimiter tokens
DelimiterChars == {"(", ")", ",", "+", "-", "*", "/", "^", "="}

RECURSIVE TakeWhileDigit(_, _)
TakeWhileDigit(s, i) ==
    IF i <= Len(s) /\ IsDigit(s[i]) THEN <<s[i]>> \o TakeWhileDigit(s, i + 1)
    ELSE <<>>

RECURSIVE TakeWhileAlnum(_, _)
TakeWhileAlnum(s, i) ==
    IF i <= Len(s) /\ (IsLetter(s[i]) \/ IsDigit(s[i]))
    THEN <<s[i]>> \o TakeWhileAlnum(s, i + 1)
    ELSE <<>>

\* getToken, repeated to the end of the text; whitespace separates tokens
\* and is otherwise skipped; a character that starts no token gives UNKNOWN
RECURSIVE TokensFrom(_, _)
TokensFrom(s, i) ==
    IF i > Len(s) THEN <<>>
    ELSE IF IsSpace(s[i]) THEN TokensFrom(s, i + 1)
    ELSE IF s[i] = "=" /\ i < Len(s) /\ s[i + 1] = "="
         THEN <<[t |-> "DELIMITER", s |-> <<"=", "=">>]>> \o TokensFrom(s, i + 2)
    ELSE IF s[i] \in DelimiterChars
         THEN <<[t |-> "DELIMITER", s |-> <<s[i]>>]>> \o TokensFrom(s, i + 1)
    ELSE IF IsDigit(s[i])
         THEN LET w == TakeWhileDigit(s, i)
              IN  <<[t |-> "NUMBER", s |-> w]>> \o TokensFrom(s, i + Len(w))
    ELSE IF IsLetter(s[i])
         THEN LET w == TakeWhileAlnum(s, i)
              IN  <<[t |-> "SYMBOL", s |-> w]>> \o TokensFrom(s, i + Len(w))
    ELSE <<[t |-> "UNKNOWN", s |-> <<s[i]>>]>>

Tokenize(s) == TokensFrom(s, 1)

RECURSIVE DigitsToNat(_)
DigitsToNat(w) ==
    IF w = <<>> THEN 0
    ELSE 10 * DigitsToNat(SubSeq(w, 1, Len(w) - 1)) + DigitValue(w[Len(w)])

\* the value of a ConstantNode made by an empty text
Undefined == [k |-> "undef", n |-> 0, d |-> 1]

ConstantNode(v)        == [type |-> "ConstantNode", value |-> v]
SymbolNode(name)       == [type |-> "SymbolNode", name |-> name]
OperatorNode(op, args) == [type |-> "OperatorNode", op |-> op, args |-> args,
                           implicit |-> FALSE]
ImplicitNode(args)     == [type |-> "OperatorNode", op |-> "*", args |-> args,
                           implicit |-> TRUE]
FunctionNode(name, args) == [type |-> "FunctionNode", name |-> name, args |-> args]
ParenthesisNode(c)     == [type |-> "ParenthesisNode", content |-> c]
AssignmentNode(name, v) == [type |-> "AssignmentNode", name |-> name, value |-> v]
FunctionAssignmentNode(name, params, e) ==
    [type |-> "FunctionAssignmentNode", name |-> name, params |-> params, expr |-> e]

isConstantNode(n) == n.type = "ConstantNode"
isSymbolNode(n)   == n.type = "SymbolNode"
isOperatorNode(n) == n.type = "OperatorNode"
isFunctionNode(n) == n.type = "FunctionNode"

\* a parse step: its success, its node and the position of the next token
POk(node, pos) == [ok |-> TRUE, node |-> node, pos |-> pos]
PFail == [ok |-> FALSE, node |-> ConstantNode(IntV(0)), pos |-> 0]

\* the token at position p, "" at the end of the text
Tok(ts, p) == IF p <= Len(ts) THEN ts[p] ELSE [t |-> "END", s |-> <<>>]
IsDelim(ts, p, c) == Tok(ts, p).t = "DELIMITER" /\ Tok(ts, p).s = c

\* "number / number symbol" divides before it multiplies: 1/2 x = (1/2) x
rule2Node(node) ==
    \/ isConstantNode(node)
    \/ /\ isOperatorNode(node)
       /\ Len(node.args) = 1
       /\ isConstantNode(node.args[1])
       /\ node.op \in {"-", "+"}

\* The recursive descent of the host parser.  rule names the parser function
\* (parseAssignment, parseRelational, ...; the Loop rules are the while loops
\* inside them), p is the position of the current token and acc holds what
\* the rule has built so far: the operands of a loop, <<node, last>> for the
\* two adjacency rules, <<function name, arguments...>> for a call.
RECURSIVE parseRule(_, _, _, _)
parseRule(rule, ts, acc, p) ==
    CASE rule = "parseAssignment" ->
            \* the left hand side of '=' must be a symbol, or a call whose
            \* arguments are all symbols; anything else is a syntax error
            (LET r1 == parseRule("parseRelational", ts, <<>>, p)
                 v1 == parseRule("parseAssignment", ts, <<>>, r1.pos + 1)
             IN  IF ~r1.ok THEN PFail
                 ELSE IF IsDelim(ts, r1.pos, <<"=">>)
                 THEN IF isSymbolNode(r1.node)
                      THEN (IF v1.ok THEN POk(AssignmentNode(r1.node.name, v1.node), v1.pos)
                            ELSE PFail)
                      ELSE IF isFunctionNode(r1.node)
                              /\ \A i \in 1..Len(r1.node.args) :
                                    isSymbolNode(r1.node.args[i])
                      THEN (IF v1.ok
                            THEN POk(FunctionAssignmentNode(r1.node.name, r1.node.args,
                                                            v1.node), v1.pos)
                            ELSE PFail)
                      ELSE PFail
                 ELSE r1)
      [] rule = "parseRelational" ->
            (LET r2 == parseRule("parseAddSubtract", ts, <<>>, p)
             IN  IF ~r2.ok THEN PFail
                 ELSE parseRule("RelationalLoop", ts, <<r2.node>>, r2.pos))
      [] rule = "RelationalLoop" ->
            \* a == b; a chain of more than one == is a RelationalNode
            (IF IsDelim(ts, p, <<"=", "=">>)
             THEN LET r3 == parseRule("parseAddSubtract", ts, <<>>, p + 1)
                  IN  IF ~r3.ok THEN PFail
                      ELSE parseRule("RelationalLoop", ts, Append(acc, r3.node), r3.pos)
             ELSE IF Len(acc) = 1 THEN POk(acc[1], p)
             ELSE IF Len(acc) = 2 THEN POk(OperatorNode("==", acc), p)
             ELSE POk([type |-> "RelationalNode", params |-> acc], p))
      [] rule = "parseAddSubtract" ->
            (LET r4 == parseRule("parseMultiplyDivide", ts, <<>>, p)
             IN  IF ~r4.ok THEN PFail
                 ELSE parseRule("AddSubtractLoop", ts, <<r4.node>>, r4.pos))
      [] rule = "AddSubtractLoop" ->
            (IF IsDelim(ts, p, <<"+">>) \/ IsDelim(ts, p, <<"-">>)
             THEN LET r5 == parseRule("parseMultiplyDivide", ts, <<>>, p + 1)
                  IN  IF ~r5.ok THEN PFail
                      ELSE parseRule("AddSubtractLoop", ts,
                                     <<OperatorNode(ts[p].s[1], <<acc[1], r5.node>>)>>,
                                     r5.pos)
             ELSE POk(acc[1], p))
      [] rule = "parseMultiplyDivide" ->
            (LET r6 == parseRule("parseImplicitMultiplication", ts, <<>>, p)
             IN  IF ~r6.ok THEN PFail
                 ELSE parseRule("MultiplyDivideLoop", ts, <<r6.node>>, r6.pos))
      [] rule = "MultiplyDivideLoop" ->
            (IF IsDelim(ts, p, <<"*">>) \/ IsDelim(ts, p, <<"/">>)
             THEN LET r7 == parseRule("parseImplicitMultiplication", ts, <<>>, p + 1)
                  IN  IF ~r7.ok THEN PFail
                      ELSE parseRule("MultiplyDivideLoop", ts,
                                     <<OperatorNode(ts[p].s[1], <<acc[1], r7.node>>)>>,
                                     r7.pos)
             ELSE POk(acc[1], p))
      [] rule = "parseImplicitMultiplication" ->
            \* "2 x", "x y", "(a)(b)", "2(x)": adjacency multiplies
            (LET r8 == parseRule("parseRule2", ts, <<>>, p)
             IN  IF ~r8.ok THEN PFail
                 ELSE parseRule("ImplicitLoop", ts, <<r8.node, r8.node>>, r8.pos))
      [] rule = "ImplicitLoop" ->
            (IF \/ Tok(ts, p).t = "SYMBOL"
                \/ (Tok(ts, p).t = "NUMBER" /\ ~isConstantNode(acc[2])
                    /\ ~isOperatorNode(acc[2]))
                \/ IsDelim(ts, p, <<"(">>)
             THEN LET r9 == parseRule("parseRule2", ts, <<>>, p)
                  IN  IF ~r9.ok THEN PFail
                      ELSE parseRule("ImplicitLoop", ts,
                                     <<ImplicitNode(<<acc[1], r9.node>>), r9.node>>, r9.pos)
             ELSE POk(acc[1], p))
      [] rule = "parseRule2" ->
            (LET r10 == parseRule("parseUnary", ts, <<>>, p)
             IN  IF ~r10.ok THEN PFail
                 ELSE parseRule("Rule2Loop", ts, <<r10.node, r10.node>>, r10.pos))
      [] rule = "Rule2Loop" ->
            (IF /\ IsDelim(ts, p, <<"/">>)
                /\ rule2Node(acc[2])
                /\ Tok(ts, p + 1).t = "NUMBER"
                /\ (Tok(ts, p + 2).t = "SYMBOL" \/ IsDelim(ts, p + 2, <<"(">>))
             THEN LET r11 == parseRule("parseUnary", ts, <<>>, p + 1)
                  IN  IF ~r11.ok THEN PFail
                      ELSE parseRule("Rule2Loop", ts,
                                     <<OperatorNode("/", <<acc[1], r11.node>>), r11.node>>,
                                     r11.pos)
             ELSE POk(acc[1], p))
      [] rule = "parseUnary" ->
            (IF IsDelim(ts, p, <<"-">>) \/ IsDelim(ts, p, <<"+">>)
             THEN LET r12 == parseRule("parseUnary", ts, <<>>, p + 1)
                  IN  IF ~r12.ok THEN PFail
                      ELSE POk(OperatorNode(ts[p].s[1], <<r12.node>>), r12.pos)
             ELSE parseRule("parsePow", ts, <<>>, p))
      [] rule = "parsePow" ->
            \* a ^ b groups to the right and its exponent may carry a sign
            (LET r13 == parseRule("parseSymbol", ts, <<>>, p)
                 e13 == parseRule("parseUnary", ts, <<>>, r13.pos + 1)
             IN  IF ~r13.ok THEN PFail
                 ELSE IF IsDelim(ts, r13.pos, <<"^">>)
                 THEN (IF ~e13.ok THEN PFail
                       ELSE POk(OperatorNode("^", <<r13.node, e13.node>>), e13.pos))
                 ELSE r13)
      [] rule = "parseSymbol" ->
            (IF Tok(ts, p).t = "SYMBOL"
             THEN parseRule("parseAccessors", ts, <<SymbolNode(ts[p].s)>>, p + 1)
             ELSE parseRule("parseNumber", ts, <<>>, p))
      [] rule = "parseAccessors" ->
            \* a '(' after a symbol token is a function call
            (IF IsDelim(ts, p, <<"(">>) /\ isSymbolNode(acc[1])
             THEN IF IsDelim(ts, p + 1, <<")">>)
                  THEN POk(FunctionNode(acc[1].name, <<>>), p + 2)
                  ELSE LET a15 == parseRule("parseAssignment", ts, <<>>, p + 1)
                       IN  IF ~a15.ok THEN PFail
                           ELSE parseRule("ParamsLoop", ts, <<acc[1].name, a15.node>>,
                                          a15.pos)
             ELSE POk(acc[1], p))
      [] rule = "ParamsLoop" ->
            (IF IsDelim(ts, p, <<",">>)
             THEN LET a16 == parseRule("parseAssignment", ts, <<>>, p + 1)
                  IN  IF ~a16.ok THEN PFail
                      ELSE parseRule("ParamsLoop", ts, Append(acc, a16.node), a16.pos)
             ELSE IF IsDelim(ts, p, <<")">>)
             THEN POk(FunctionNode(Head(acc), Tail(acc)), p + 1)
             ELSE PFail)
      [] rule = "parseNumber" ->
            (IF Tok(ts, p).t = "NUMBER"
             THEN POk(ConstantNode(IntV(DigitsToNat(ts[p].s))), p + 1)
             ELSE parseRule("parseParentheses", ts, <<>>, p))
      [] rule = "parseParentheses" ->
            \* a token that starts no value ends in "Value expected"
            (IF IsDelim(ts, p, <<"(">>)
             THEN LET r18 == parseRule("parseAssignment", ts, <<>>, p + 1)
                  IN  IF ~r18.ok \/ ~IsDelim(ts, r18.pos, <<")">>) THEN PFail
                      ELSE POk(ParenthesisNode(r18.node), r18.pos + 1)
             ELSE PFail)

\* parse(text): an empty text is a ConstantNode of undefined; tokens left
\* over after the expression are a syntax error
ParseComplete(r, n) == IF r.ok /\ r.pos = n + 1 THEN r ELSE PFail

ParseTokens(ts) ==
    IF ts = <<>> THEN POk(ConstantNode(Undefined), 1)
    ELSE ParseComplete(parseRule("parseAssignment", ts, <<>>, 1), Len(ts))

parse(text) == ParseTokens(Tokenize(text))

(***************************************************************************)
(* node.toString() with the default options (parenthesis: 'keep',          *)
(* implicit: 'hide')                                                       *)
(***************************************************************************)
RECURSIVE NatToDigits(_)
NatToDigits(n) ==
    IF n < 10 THEN <<DigitChar(n)>>
    ELSE NatToDigits(n \div 10) \o <<DigitChar(n % 10)>>

\* the text of a number (the model only ever prints integers, Infinity, NaN)
FormatNumber(v) ==
    CASE v.k = "undef" -> <<"u", "n", "d", "e", "f", "i", "n", "e", "d">>
      [] v.k = "nan"   -> <<"N", "a", "N">>
      [] v.k = "inf"   -> (IF v.n < 0 THEN <<"-">> ELSE <<>>)
                          \o <<"I", "n", "f", "i", "n", "i", "t", "y">>
      [] v.k = "num" /\ v.d = 1 ->
            (IF v.n < 0 THEN <<"-">> ELSE <<>>) \o NatToDigits(AbsInt(v.n))

\* operator precedence; 0 stands for "no precedence" (not an operator, or
\* a ParenthesisNode, which 'keep' leaves in place)
Precedence(node) ==
    IF node.type = "AssignmentNode" \/ node.type = "FunctionAssignmentNode" THEN 1
    ELSE IF node.type = "RelationalNode" THEN 9
    ELSE IF node.type # "OperatorNode" THEN 0
    ELSE IF node.op = "==" THEN 9
    ELSE IF Len(node.args) = 1 THEN 16
    ELSE IF node.op \in {"+", "-"} THEN 13
    ELSE IF node.op \in {"*", "/"} THEN (IF node.implicit THEN 15 ELSE 14)
    ELSE 17

\* 'left' or 'right'
Associativity(node) ==
    IF node.type = "OperatorNode" /\ Len(node.args) = 2 /\ node.op = "^"
    THEN "right" ELSE "left"

\* a + (b + c), a + (b - c), a * (b * c), a * (b / c) need no parentheses
isAssociativeWith(a, b) ==
    /\ a.type = "OperatorNode" /\ b.type = "OperatorNode"
    /\ Len(a.args) = 2 /\ Len(b.args) = 2
    /\ \/ a.op = "+" /\ b.op \in {"+", "-"}
       \/ a.op = "*" /\ b.op \in {"*", "/"}

Paren(str) == <<"(">> \o str \o <<")">>

RECURSIVE JoinArgs(_)
JoinArgs(strs) ==
    IF strs = <<>> THEN <<>>
    ELSE IF Len(strs) = 1 THEN strs[1]
    ELSE strs[1] \o <<",", " ">> \o JoinArgs(Tail(strs))

RECURSIVE JoinEq(_)
JoinEq(strs) ==
    IF Len(strs) = 1 THEN strs[1]
    ELSE strs[1] \o <<" ", "=", "=", " ">> \o JoinEq(Tail(strs))

RECURSIVE toString(_)
toString(node) ==
    CASE node.type = "ConstantNode" -> FormatNumber(node.value)
      [] node.type = "SymbolNode" -> node.name
      [] node.type = "ParenthesisNode" -> Paren(toString(node.content))
      [] node.type = "FunctionNode" ->
            node.name \o Paren(JoinArgs([i \in 1..Len(node.args) |-> toString(node.args[i])]))
      [] node.type = "AssignmentNode" ->
            node.name \o <<" ", "=", " ">> \o
            (IF Precedence(node.value) # 0 /\ Precedence(node.value) <= 1
             THEN Paren(toString(node.value)) ELSE toString(node.value))
      [] node.type = "FunctionAssignmentNode" ->
            node.name \o Paren(JoinArgs([i \in 1..Len(node.params) |-> node.params[i].name]))
            \o <<" ", "=", " ">> \o
            (IF Precedence(node.expr) # 0 /\ Precedence(node.expr) <= 1
             THEN Paren(toString(node.expr)) ELSE toString(node.expr))
      [] node.type = "RelationalNode" ->
            JoinEq([i \in 1..Len(node.params) |->
                      IF Precedence(node.params[i]) # 0 /\ Precedence(node.params[i]) <= 9
                      THEN Paren(toString(node.params[i]))
                      ELSE toString(node.params[i])])
      [] node.type = "OperatorNode" /\ Len(node.args) = 1 ->
            LET a == node.args[1]
                pa == Precedence(a)
            IN  <<node.op>> \o (IF pa # 0 /\ pa <= Precedence(node)
                                THEN Paren(toString(a)) ELSE toString(a))
      [] node.type = "OperatorNode" /\ Len(node.args) = 2 ->
            LET p  == Precedence(node)
                l  == node.args[1]
                r  == node.args[2]
                pl == Precedence(l)
                pr == Precedence(r)
                lp == /\ pl # 0
                      /\ \/ (pl = p /\ Associativity(node) = "right"
                             /\ ~isAssociativeWith(node, l))
                         \/ pl < p
                rp == /\ pr # 0
                      /\ \/ (pr = p /\ Associativity(node) = "left"
                             /\ ~isAssociativeWith(node, r))
                         \/ pr < p
                ls == IF lp THEN Paren(toString(l)) ELSE toString(l)
                rs == IF rp THEN Paren(toString(r)) ELSE toString(r)
                os == IF node.op = "==" THEN <<"=", "=">> ELSE <<node.op>>
            IN  IF node.implicit THEN ls \o <<" ">> \o rs
                ELSE ls \o <<" ">> \o os \o <<" ">> \o rs

(***************************************************************************)
(* node.evaluate(scope)                                                    *)
(***************************************************************************)
\* names the host library defines as functions: as a bare symbol such a
\* name evaluates to the function object
MathFunctionNames ==
    { <<"s","i","n">>, <<"c","o","s">>, <<"t","a","n">>, <<"l","o","g">>,
      <<"s","q","r","t">>, <<"e","x","p">>, <<"a","b","s">>,
      <<"a","s","i","n">>, <<"a","c","o","s">>, <<"a","t","a","n">>,
      <<"s","i","n","h">>, <<"c","o","s","h">>, <<"t","a","n","h">>,
      <<"m","a","x">>, <<"m","i","n">> }

\* the names of Euler's number in the host library, and its value cut to
\* three decimals
EulerNames == { <<"e">>, <<"E">> }
EulerNumber == Num(2718, 1000)

\* other names the host library defines as constants or units; the texts
\* of the model use none of them as a symbol, and Evaluate has no case for
\* them
ReservedNames ==
    { <<"p","i">>, <<"i">>, <<"m">>, <<"g">>, <<"s">>, <<"h">>,
      <<"l">>, <<"L">>, <<"b">>, <<"B">>, <<"A">>, <<"K">>, <<"N">>, <<"J">>,
      <<"W">>, <<"V">>, <<"F">>, <<"C">>, <<"S">>, <<"H">>, <<"T">> }

BoolVal(b) == [k |-> "bool", n |-> (IF b THEN 1 ELSE 0), d |-> 1]

\* typed-function accepts numbers and converts booleans; any other argument
\* type makes an arithmetic operator raise a TypeError
ArgOk(v)  == v.k \in {"num", "inf", "nan", "bool"}
ArgNum(v) == IF v.k = "bool" THEN IntV(v.n) ELSE v

NumEq(a, b) == a.k # "nan" /\ b.k # "nan" /\ a = b

RECURSIVE MaxOf(_)
MaxOf(vs) ==
    IF Len(vs) = 1 THEN vs[1]
    ELSE LET m == MaxOf(Tail(vs))
         IN  IF vs[1].k = "nan" \/ m.k = "nan" THEN NaN
             ELSE IF NumLt(vs[1], m) THEN m ELSE vs[1]

RECURSIVE MinOf(_)
MinOf(vs) ==
    IF Len(vs) = 1 THEN vs[1]
    ELSE LET m == MinOf(Tail(vs))
         IN  IF vs[1].k = "nan" \/ m.k = "nan" THEN NaN
             ELSE IF NumLt(m, vs[1]) THEN m ELSE vs[1]

\* scope is a function from names to numbers
RECURSIVE Evaluate(_, _)
Evaluate(node, scope) ==
    CASE node.type = "ConstantNode" -> node.value
      [] node.type = "SymbolNode" /\ node.name \in DOMAIN scope -> scope[node.name]
      [] node.type = "SymbolNode" /\ node.name \notin DOMAIN scope
         /\ node.name \in MathFunctionNames -> FnVal
      [] node.type = "SymbolNode" /\ node.name \notin DOMAIN scope
         /\ node.name \in EulerNames -> EulerNumber
      [] node.type = "SymbolNode" /\ node.name \notin DOMAIN scope
         /\ node.name \notin MathFunctionNames /\ node.name \notin EulerNames
         /\ node.name \notin ReservedNames ->
            Thrown  \* Undefined symbol
      [] node.type = "ParenthesisNode" -> Evaluate(node.content, scope)
      [] node.type = "AssignmentNode" -> Evaluate(node.value, scope)
      [] node.type = "FunctionAssignmentNode" -> FnVal
      [] node.type = "RelationalNode" ->
            LET rs == [i \in 1..Len(node.params) |-> Evaluate(node.params[i], scope)]
            IN  IF \E i \in 1..Len(rs) : ~ArgOk(rs[i]) THEN Thrown
                ELSE BoolVal(\A i \in 1..(Len(rs) - 1) :
                                NumEq(ArgNum(rs[i]), ArgNum(rs[i + 1])))
      [] node.type = "FunctionNode" ->
            LET fs == [i \in 1..Len(node.args) |-> Evaluate(node.args[i], scope)]
            IN (CASE node.name \notin MathFunctionNames -> Thrown  \* Undefined function
                  [] node.name \in MathFunctionNames
                     /\ \E i \in 1..Len(fs) : ~ArgOk(fs[i]) -> Thrown
                  [] node.name \in MathFunctionNames
                     /\ (\A i \in 1..Len(fs) : ArgOk(fs[i]))
                     /\ node.name = <<"a","b","s">> ->
                        IF Len(fs) = 1 THEN MathAbs(ArgNum(fs[1])) ELSE Thrown
                  [] node.name \in MathFunctionNames
                     /\ (\A i \in 1..Len(fs) : ArgOk(fs[i]))
                     /\ node.name = <<"m","a","x">> ->
                        IF Len(fs) = 0 THEN Thrown
                        ELSE MaxOf([i \in 1..Len(fs) |-> ArgNum(fs[i])])
                  [] node.name \in MathFunctionNames
                     /\ (\A i \in 1..Len(fs) : ArgOk(fs[i]))
                     /\ node.name = <<"m","i","n">> ->
                        IF Len(fs) = 0 THEN Thrown
                        ELSE MinOf([i \in 1..Len(fs) |-> ArgNum(fs[i])]))
      [] node.type = "OperatorNode" ->
            LET os == [i \in 1..Len(node.args) |-> Evaluate(node.args[i], scope)]
                a  == ArgNum(os[1])
                b  == ArgNum(os[2])
            IN  IF \E i \in 1..Len(os) : ~ArgOk(os[i]) THEN Thrown
                ELSE IF Len(os) = 1
                THEN (IF node.op = "-" THEN NumNeg(a) ELSE a)
                ELSE CASE node.op = "+" -> NumAdd(a, b)
                       [] node.op = "-" -> NumSub(a, b)
                       [] node.op = "*" -> NumMul(a, b)
                       [] node.op = "/" -> NumDiv(a, b)
                       [] node.op = "^" -> NumPow(a, b)
                       [] node.op = "==" -> BoolVal(NumEq(a, b))

\* the scope { x, y }
ScopeXY(x, y) == (<<"x">> :> x) @@ (<<"y">> :> y)

\* the scope { x }
ScopeX(x) == (<<"x">> :> x)

(***************************************************************************)
(* derivative(node, variable) of the host library: symbolic rules followed *)
(* by simplify.                                                            *)
(***************************************************************************)
Zero == ConstantNode(IntV(0))
One  == ConstantNode(IntV(1))

\* constTag: the node does not depend on the variable
RECURSIVE IsConst(_, _)
IsConst(node, var) ==
    CASE node.type = "ConstantNode" -> TRUE
      [] node.type = "SymbolNode" -> node.name # var
      [] node.type = "ParenthesisNode" -> IsConst(node.content, var)
      [] node.type \in {"FunctionNode", "OperatorNode"} ->
            /\ Len(node.args) > 0
            /\ \A i \in 1..Len(node.args) : IsConst(node.args[i], var)
      [] OTHER -> FALSE

\* constTag has no signature for assignments and relational chains
RECURSIVE HasUntypedNode(_)
HasUntypedNode(node) ==
    CASE node.type \in {"ConstantNode", "SymbolNode"} -> FALSE
      [] node.type = "ParenthesisNode" -> HasUntypedNode(node.content)
      [] node.type \in {"FunctionNode", "OperatorNode"} ->
            \E i \in 1..Len(node.args) : HasUntypedNode(node.args[i])
      [] OTHER -> TRUE

\* functions whose derivative rule the host library knows; the texts of the
\* model never apply one of them to the variable
DerivableFunctionNames == MathFunctionNames \ { <<"m","a","x">>, <<"m","i","n">> }

DOk(node) == [ok |-> TRUE, node |-> node]
DFail     == [ok |-> FALSE, node |-> Zero]

\* _derivative: the result, or DFail where the host library throws
RECURSIVE Deriv(_, _)
Deriv(node, var) ==
    CASE node.type = "ConstantNode" -> DOk(Zero)
      [] node.type = "SymbolNode" -> DOk(IF node.name # var THEN Zero ELSE One)
      [] node.type = "ParenthesisNode" ->
            LET c == Deriv(node.content, var)
            IN  IF c.ok THEN DOk(ParenthesisNode(c.node)) ELSE DFail
      [] node.type = "FunctionNode" ->
            \* the argument count is checked before the constant shortcut:
            \* a call with several arguments throws even when it is constant
            (CASE Len(node.args) # 1 -> DFail
               [] Len(node.args) = 1 /\ IsConst(node, var) -> DOk(Zero)
               [] Len(node.args) = 1 /\ ~IsConst(node, var)
                  /\ node.name \notin DerivableFunctionNames -> DFail)
      [] node.type = "OperatorNode" /\ IsConst(node, var) -> DOk(Zero)
      [] node.type = "OperatorNode" /\ ~IsConst(node, var) /\ node.op = "+" ->
            LET ps == [i \in 1..Len(node.args) |-> Deriv(node.args[i], var)]
            IN  IF \A i \in 1..Len(ps) : ps[i].ok
                THEN DOk(OperatorNode("+", [i \in 1..Len(ps) |-> ps[i].node]))
                ELSE DFail
      [] node.type = "OperatorNode" /\ ~IsConst(node, var) /\ node.op = "-" ->
            LET ms == [i \in 1..Len(node.args) |-> Deriv(node.args[i], var)]
            IN  IF \A i \in 1..Len(ms) : ms[i].ok
                THEN DOk(OperatorNode("-", [i \in 1..Len(ms) |-> ms[i].node]))
                ELSE DFail
      [] node.type = "OperatorNode" /\ ~IsConst(node, var) /\ node.op = "*" ->
            LET a == node.args[1]
                b == node.args[2]
            IN  IF IsConst(a, var)
                \* d/dx(c*f(x)) = c*f'(x)
                THEN LET db == Deriv(b, var)
                     IN  IF db.ok THEN DOk(OperatorNode("*", <<a, db.node>>)) ELSE DFail
                ELSE IF IsConst(b, var)
                THEN LET da == Deriv(a, var)
                     IN  IF da.ok THEN DOk(OperatorNode("*", <<b, da.node>>)) ELSE DFail
                \* d/dx(f(x)g(x)) = f'(x)g(x) + f(x)g'(x)
                ELSE LET da == Deriv(a, var)
                         db == Deriv(b, var)
                     IN  IF da.ok /\ db.ok
                         THEN DOk(OperatorNode("+",
                                    << OperatorNode("*", <<da.node, b>>),
                                       OperatorNode("*", <<a, db.node>>) >>))
                         ELSE DFail
      [] node.type = "OperatorNode" /\ ~IsConst(node, var) /\ node.op = "/" ->
            LET a == node.args[1]
                b == node.args[2]
            IN  IF IsConst(b, var)
                \* d/dx(f(x) / c) = f'(x) / c
                THEN LET da == Deriv(a, var)
                     IN  IF da.ok THEN DOk(OperatorNode("/", <<da.node, b>>)) ELSE DFail
                ELSE IF IsConst(a, var)
                \* d/dx(c / f(x)) = -c * (f'(x) / f(x)^2)
                THEN LET db == Deriv(b, var)
                     IN  IF db.ok
                         THEN DOk(OperatorNode("*",
                                    << OperatorNode("-", <<a>>),
                                       OperatorNode("/",
                                          << db.node,
                                             OperatorNode("^", <<b, ConstantNode(IntV(2))>>) >>) >>))
                         ELSE DFail
                \* d/dx(f(x) / g(x)) = (f'(x)g(x) - f(x)g'(x)) / g(x)^2
                ELSE LET da == Deriv(a, var)
                         db == Deriv(b, var)
                     IN  IF da.ok /\ db.ok
                         THEN DOk(OperatorNode("/",
                                    << OperatorNode("-",
                                          << OperatorNode("*", <<da.node, b>>),
                                             OperatorNode("*", <<a, db.node>>) >>),
                                       OperatorNode("^", <<b, ConstantNode(IntV(2))>>) >>))
                         ELSE DFail
      [] node.type = "OperatorNode" /\ ~IsConst(node, var) /\ node.op = "^"
         /\ IsConst(node.args[2], var) ->
            LET a == node.args[1]
                e == node.args[2]
                da == Deriv(a, var)
            IN  IF isConstantNode(e) /\ e.value = IntV(0) THEN DOk(Zero)
                ELSE IF isConstantNode(e) /\ e.value = IntV(1) THEN da
                \* d/dx(f(x)^c) = c * f'(x) * f(x)^(c-1)
                ELSE IF da.ok
                THEN DOk(OperatorNode("*",
                           << e,
                              OperatorNode("*",
                                 << da.node,
                                    OperatorNode("^", <<a, OperatorNode("-", <<e, One>>)>>) >>) >>))
                ELSE DFail
      \* any other operator is not supported by derivative
      [] node.type = "OperatorNode" /\ ~IsConst(node, var) /\ node.op = "==" -> DFail

\* the value of a ConstantNode holding a finite integer, or FALSE
IsIntConst(node) ==
    isConstantNode(node) /\ node.value.k = "num" /\ node.value.d = 1

IsConstOf(node, n) == isConstantNode(node) /\ node.value = IntV(n)

\* the rules of simplify that act on the derivatives above: parentheses are
\* dropped, operations on two integer constants are folded, and the neutral
\* and absorbing constants of + - * / ^ are removed
RECURSIVE Simplify(_)
Simplify(node) ==
    CASE node.type = "ParenthesisNode" -> Simplify(node.content)
      [] node.type = "FunctionNode" ->
            FunctionNode(node.name, [i \in 1..Len(node.args) |-> Simplify(node.args[i])])
      [] node.type = "OperatorNode" /\ Len(node.args) = 1 ->
            LET a == Simplify(node.args[1])
            IN  IF node.op = "+" THEN a
                ELSE IF IsIntConst(a) THEN ConstantNode(IntV(-a.value.n))
                ELSE IF isOperatorNode(a) /\ Len(a.args) = 1 /\ a.op = "-" THEN a.args[1]
                ELSE OperatorNode("-", <<a>>)
      [] node.type = "OperatorNode" /\ Len(node.args) = 2 ->
            LET a == Simplify(node.args[1])
                b == Simplify(node.args[2])
                both == IsIntConst(a) /\ IsIntConst(b)
            IN (CASE node.op = "+" ->
                       IF both THEN ConstantNode(IntV(a.value.n + b.value.n))
                       ELSE IF IsConstOf(a, 0) THEN b
                       ELSE IF IsConstOf(b, 0) THEN a
                       ELSE OperatorNode("+", <<a, b>>)
                  [] node.op = "-" ->
                       IF both THEN ConstantNode(IntV(a.value.n - b.value.n))
                       ELSE IF IsConstOf(b, 0) THEN a
                       ELSE IF IsConstOf(a, 0) THEN OperatorNode("-", <<b>>)
                       ELSE OperatorNode("-", <<a, b>>)
                  [] node.op = "*" ->
                       IF both THEN ConstantNode(IntV(a.value.n * b.value.n))
                       ELSE IF IsConstOf(a, 0) \/ IsConstOf(b, 0) THEN Zero
                       ELSE IF IsConstOf(a, 1) THEN b
                       ELSE IF IsConstOf(b, 1) THEN a
                       ELSE OperatorNode("*", <<a, b>>)
                  [] node.op = "/" ->
                       IF both /\ b.value.n # 0 /\ a.value.n % b.value.n = 0
                       THEN ConstantNode(IntV(a.value.n \div b.value.n))
                       ELSE IF IsConstOf(b, 1) THEN a
                       ELSE OperatorNode("/", <<a, b>>)
                  [] node.op = "^" ->
                       IF IsConstOf(b, 0) THEN One
                       ELSE IF IsConstOf(b, 1) THEN a
                       ELSE IF both /\ b.value.n > 1
                       THEN ConstantNode(NumPowNat(a.value, b.value.n))
                       ELSE OperatorNode("^", <<a, b>>)
                  [] node.op = "==" -> OperatorNode("==", <<a, b>>))
      [] OTHER -> node

\* derivative(node, var): [ok |-> FALSE] stands for a thrown exception
SimplifyResult(r) == IF r.ok THEN DOk(Simplify(r.node)) ELSE DFail

derivative(node, var) ==
    IF HasUntypedNode(node) THEN DFail ELSE SimplifyResult(Deriv(node, var))

(***************************************************************************)
(* mathParser: parseMathExpression, extractVariables, evaluateExpression   *)
(***************************************************************************)
\* node.traverse: the nodes of the tree in visiting order (a node, then its
\* children; the name of a called function is a symbol child of the call)
RECURSIVE Traverse(_)
RECURSIVE TraverseAll(_)
Traverse(node) ==
    <<node>> \o
    ( CASE node.type = "ParenthesisNode" -> Traverse(node.content)
        [] node.type = "OperatorNode" -> TraverseAll(node.args)
        [] node.type = "FunctionNode" ->
              <<SymbolNode(node.name)>> \o TraverseAll(node.args)
        [] node.type = "AssignmentNode" ->
              <<SymbolNode(node.name)>> \o Traverse(node.value)
        [] node.type = "FunctionAssignmentNode" -> Traverse(node.expr)
        [] node.type = "RelationalNode" -> TraverseAll(node.params)
        [] OTHER -> <<>> )

TraverseAll(nodes) ==
    IF nodes = <<>> THEN <<>> ELSE Traverse(Head(nodes)) \o TraverseAll(Tail(nodes))

\* the names extractVariables never reports
ExcludedNames ==
    { <<"p","i">>, <<"e">>, <<"s","i","n">>, <<"c","o","s">>, <<"t","a","n">>,
      <<"l","o","g">>, <<"s","q","r","t">>, <<"e","x","p">>, <<"a","b","s">>,
      <<"a","s","i","n">>, <<"a","c","o","s">>, <<"a","t","a","n">>,
      <<"s","i","n","h">>, <<"c","o","s","h">>, <<"t","a","n","h">> }

\* /^[a-zA-Z]$/.test(name) || ['pi', 'e'].includes(name), and not excluded
IsVariableName(name) ==
    /\ \/ (Len(name) = 1 /\ IsLetter(name[1]))
       \/ name \in { <<"p","i">>, <<"e">> }
    /\ name \notin ExcludedNames

\* the order of UTF-16 code units on letters: upper case before lower case
LetterOrder ==
    <<"A", "B", "C", "D", "E", "F", "G", "H", "I", "J", "K", "L", "M",
      "N", "O", "P", "Q", "R", "S", "T", "U", "V", "W", "X", "Y", "Z",
      "a", "b", "c", "d", "e", "f", "g", "h", "i", "j", "k", "l", "m",
      "n", "o", "p", "q", "r", "s", "t", "u", "v", "w", "x", "y", "z">>

CharCode(c) == CHOOSE i \in 1..Len(LetterOrder) : LetterOrder[i] = c

\* name a sorts before name b (names here are single letters)
NameBefore(a, b) == CharCode(a[1]) < CharCode(b[1])

\* Set.add over the visited symbols: first occurrences, in visiting order
RECURSIVE CollectNames(_, _)
CollectNames(nodes, acc) ==
    IF nodes = <<>> THEN acc
    ELSE LET n == Head(nodes)
         IN  IF isSymbolNode(n) /\ IsVariableName(n.name)
                /\ ~\E i \in 1..Len(acc) : acc[i] = n.name
             THEN CollectNames(Tail(nodes), Append(acc, n.name))
             ELSE CollectNames(Tail(nodes), acc)

\* Array.prototype.sort with the default comparison
RECURSIVE InsertSorted(_, _)
InsertSorted(sorted, name) ==
    IF sorted = <<>> THEN <<name>>
    ELSE IF NameBefore(name, Head(sorted)) THEN <<name>> \o sorted
    ELSE <<Head(sorted)>> \o InsertSorted(Tail(sorted), name)

\* the collected names left in visiting order
SortNamesNone(names) == names

RECURSIVE SortNames(_)
SortNames(names) ==
    IF names = <<>> THEN <<>>
    ELSE InsertSorted(SortNames(SubSeq(names, 1, Len(names) - 1)), names[Len(names)])

extractVariables(node) == SortNames(CollectNames(Traverse(node), <<>>))

NoMessage == "undefined"

\* parseMathExpression without its catch block: the parse error propagates
ParsedExpressionUncaught(r) ==
    IF r.ok
    THEN [node |-> r.node, variables |-> extractVariables(r.node),
          isValid |-> TRUE, errorMessage |-> NoMessage]
    ELSE Thrown

\* parseMathExpression: the catch block is entered only by a parse failure
ParsedExpression(r) ==
    IF r.ok
    THEN [node |-> r.node, variables |-> extractVariables(r.node),
          isValid |-> TRUE, errorMessage |-> NoMessage]
    ELSE [node |-> ConstantNode(IntV(0)), variables |-> <<>>,
          isValid |-> FALSE, errorMessage |-> "SyntaxError"]

parseMathExpression(equation) == ParsedExpression(parse(Normalize(equation)))

\* evaluateExpression without the typeof test on the result
NumberOrNaNUntyped(result) ==
    IF IsThrown(result) THEN NaN ELSE result

\* evaluateExpression
\* typeof result === 'number' ? result : NaN, and NaN from the catch block
NumberOrNaN(result) ==
    IF IsThrown(result) THEN NaN
    ELSE IF IsNumberType(result) THEN result ELSE NaN

\* evaluateExpression without the test of isValid
evaluateExpressionUnchecked(parsedExpr, variables) ==
    NumberOrNaN(Evaluate(parsedExpr.node, variables))

\* evaluateExpression without its try block: an exception of the host
\* evaluation reaches the caller
evaluateExpressionUncaught(parsedExpr, variables) ==
    IF ~parsedExpr.isValid THEN NaN
    ELSE Evaluate(parsedExpr.node, variables)

evaluateExpression(parsedExpr, variables) ==
    IF ~parsedExpr.isValid THEN NaN
    ELSE NumberOrNaN(Evaluate(parsedExpr.node, variables))

\* createMeshData
\* a cell of z that is null
NullValue == [k |-> "null", n |-> 0, d |-> 1]

\* (max - min) / (resolution - 1)
MeshStep(min, max, resolution) ==
    FlDiv(FlSub(max, min), IntV(resolution - 1))

\* min + j * step
MeshCoord(min, stepSize, j) == FlAdd(min, FlMul(IntV(j), stepSize))

\* a cell of z that keeps infinite values
FiniteOrNullNaNOnly(zVal) == IF zVal.k = "nan" THEN NullValue ELSE zVal

\* isFinite(zVal) ? zVal : null
FiniteOrNull(zVal) == IF isFinite(zVal) THEN zVal ELSE NullValue

MeshCell(parsedExpr, xVal, yVal) ==
    FiniteOrNull(evaluateExpression(parsedExpr, ScopeXY(xVal, yVal)))

\* the two loops: row i and column j of the source are i + 1 and j + 1 here
MeshGrids(parsedExpr, xMin, yMin, xStep, yStep, resolution) ==
    [x |-> [i \in 1..resolution |->
               [j \in 1..resolution |-> MeshCoord(xMin, xStep, j - 1)]],
     y |-> [i \in 1..resolution |->
               [j \in 1..resolution |-> MeshCoord(yMin, yStep, i - 1)]],
     z |-> [i \in 1..resolution |->
               [j \in 1..resolution |->
                   MeshCell(parsedExpr, MeshCoord(xMin, xStep, j - 1),
                                        MeshCoord(yMin, yStep, i - 1))]]]

createMeshData(parsedExpr, xMin, xMax, yMin, yMax, resolution) ==
    MeshGrids(parsedExpr, xMin, yMin,
              MeshStep(xMin, xMax, resolution),
              MeshStep(yMin, yMax, resolution), resolution)

(***************************************************************************)
(* mathAnalysis                                                            *)
(***************************************************************************)
\* an optional string field of DerivativeData
Absent        == [present |-> FALSE, text |-> <<>>]
Present(text) == [present |-> TRUE, text |-> text]

\* !field: the field is undefined or the empty string
Falsy(field) == ~field.present \/ field.text = <<>>

\* a membership test that finds every name
variablesIncludeAny(variables, name) == TRUE

\* variables.includes(name)
variablesInclude(variables, name) ==
    \E i \in 1..Len(variables) : variables[i] = name

NoDerivatives ==
    [fx |-> Absent, fy |-> Absent, fxx |-> Absent, fyy |-> Absent, fxy |-> Absent]

\* a mixed partial computed for every expression
MixedPartialAlways(variables) == TRUE

\* if (variables.includes('y')) around the mixed partial
MixedPartialRequested(variables) == variablesInclude(variables, <<"y">>)

\* derivatives.f = f.toString() for the derivative r
FieldOf(r) == Present(toString(r.node))

\* the x branch after fxx: the mixed partial, when y is a variable
XAfterFxx(parsedExpr, fx, fxx, fxy) ==
    [fx |-> FieldOf(fx), fxx |-> FieldOf(fxx),
     fxy |-> IF MixedPartialRequested(parsedExpr.variables) /\ fxy.ok
             THEN FieldOf(fxy) ELSE Absent]

\* the x branch after the attempt at fxx
XAfterFxxTried(parsedExpr, fx, fxx) ==
    IF ~fxx.ok THEN [fx |-> FieldOf(fx), fxx |-> Absent, fxy |-> Absent]
    ELSE XAfterFxx(parsedExpr, fx, fxx, derivative(fx.node, <<"y">>))

\* the x branch after the attempt at fx
XAfterFx(parsedExpr, fx) ==
    IF ~fx.ok THEN [fx |-> Absent, fxx |-> Absent, fxy |-> Absent]
    ELSE XAfterFxxTried(parsedExpr, fx, derivative(fx.node, <<"x">>))

\* the try block of the x branch: a throw leaves the fields assigned so far
XBranch(parsedExpr) ==
    XAfterFx(parsedExpr, derivative(parsedExpr.node, <<"x">>))

\* the try block of the y branch
YAfterFyy(fy, fyy) ==
    [fy |-> FieldOf(fy), fyy |-> IF fyy.ok THEN FieldOf(fyy) ELSE Absent]

YAfterFy(fy) ==
    IF ~fy.ok THEN [fy |-> Absent, fyy |-> Absent]
    ELSE YAfterFyy(fy, derivative(fy.node, <<"y">>))

YBranch(parsedExpr) == YAfterFy(derivative(parsedExpr.node, <<"y">>))

calculateDerivatives(parsedExpr) ==
    IF ~parsedExpr.isValid THEN NoDerivatives
    ELSE LET xb == IF variablesInclude(parsedExpr.variables, <<"x">>)
                   THEN XBranch(parsedExpr)
                   ELSE [fx |-> Absent, fxx |-> Absent, fxy |-> Absent]
             yb == IF variablesInclude(parsedExpr.variables, <<"y">>)
                   THEN YBranch(parsedExpr)
                   ELSE [fy |-> Absent, fyy |-> Absent]
         IN  [fx |-> xb.fx, fy |-> yb.fy, fxx |-> xb.fxx, fyy |-> yb.fyy,
              fxy |-> xb.fxy]

\* parse(field).evaluate({ x, y }); parse(undefined) throws as well
EvaluateParsed(r, x, y) ==
    IF ~r.ok THEN Thrown ELSE Evaluate(r.node, ScopeXY(x, y))

EvaluateDerivative(field, x, y) ==
    IF ~field.present THEN Thrown ELSE EvaluateParsed(parse(field.text), x, y)

\* a discriminant that adds the square of the mixed partial
discriminantSum(fxxVal, fyyVal, fxyVal) ==
    NumAdd(NumMul(fxxVal, fyyVal), NumMul(fxyVal, fxyVal))

discriminant(fxxVal, fyyVal, fxyVal) ==
    NumSub(NumMul(fxxVal, fyyVal), NumMul(fxyVal, fxyVal))

\* the second derivative test on the three values
SecondDerivativeTest(fxxVal, fyyVal, fxyVal) ==
    LET D == discriminant(fxxVal, fyyVal, fxyVal)
    IN  IF NumGt(D, IntV(0))
        THEN (IF NumGt(fxxVal, IntV(0)) THEN "minimum" ELSE "maximum")
        ELSE IF NumLt(D, IntV(0)) THEN "saddle"
        ELSE "unknown"

\* the try block after the three evaluations: a throw gives 'unknown'
ClassifyValues(fxxVal, fyyVal, fxyVal) ==
    IF IsThrown(fxxVal) \/ IsThrown(fyyVal) \/ IsThrown(fxyVal)
    THEN "unknown"
    ELSE SecondDerivativeTest(ToNumber(fxxVal), ToNumber(fyyVal), ToNumber(fxyVal))

classifyCriticalPoint(derivatives, x, y) ==
    IF Falsy(derivatives.fxx) \/ Falsy(derivatives.fyy) \/ Falsy(derivatives.fxy)
    THEN "unknown"
    ELSE ClassifyValues(EvaluateDerivative(derivatives.fxx, x, y),
                        EvaluateDerivative(derivatives.fyy, x, y),
                        EvaluateDerivative(derivatives.fxy, x, y))

step      == Num(1, 2)
tolerance == Num(1, 10)

\* a tolerance test on fx alone
NearZeroFx(fxVal, fyVal) == NumLt(MathAbs(ToNumber(fxVal)), tolerance)

\* Math.abs(fxVal) < tolerance && Math.abs(fyVal) < tolerance
NearZero(fxVal, fyVal) ==
    /\ NumLt(MathAbs(ToNumber(fxVal)), tolerance)
    /\ NumLt(MathAbs(ToNumber(fyVal)), tolerance)

\* the body of the inner loop at (x, y): the points it pushes
PushIfFinite(derivatives, x, y, z) ==
    IF isFinite(z)
    THEN << [x |-> x, y |-> y, z |-> z,
             type |-> classifyCriticalPoint(derivatives, x, y)] >>
    ELSE <<>>

PushIfNearZero(parsedExpr, derivatives, x, y, fxVal, fyVal) ==
    IF IsThrown(fxVal) \/ IsThrown(fyVal) THEN <<>>
    ELSE IF NearZero(fxVal, fyVal)
    THEN PushIfFinite(derivatives, x, y, evaluateExpression(parsedExpr, ScopeXY(x, y)))
    ELSE <<>>

ScanPoint(parsedExpr, derivatives, x, y) ==
    PushIfNearZero(parsedExpr, derivatives, x, y,
                   EvaluateDerivative(derivatives.fx, x, y),
                   EvaluateDerivative(derivatives.fy, x, y))

\* for (let y = yMin; y <= yMax; y += step)
RECURSIVE ScanY(_, _, _, _, _)
ScanY(parsedExpr, derivatives, x, y, yMax) ==
    IF NumLe(y, yMax)
    THEN ScanPoint(parsedExpr, derivatives, x, y)
         \o ScanY(parsedExpr, derivatives, x, FlAdd(y, step), yMax)
    ELSE <<>>

\* for (let x = xMin; x <= xMax; x += step)
RECURSIVE ScanX(_, _, _, _, _, _)
ScanX(parsedExpr, derivatives, x, xMax, yMin, yMax) ==
    IF NumLe(x, xMax)
    THEN ScanY(parsedExpr, derivatives, x, yMin, yMax)
         \o ScanX(parsedExpr, derivatives, FlAdd(x, step), xMax, yMin, yMax)
    ELSE <<>>

MaxPoints == 10

\* every collected point, without the cap
LimitPointsNone(points) == points

\* criticalPoints.slice(0, 10)
LimitPoints(points) ==
    SubSeq(points, 1, IF Len(points) < MaxPoints THEN Len(points) ELSE MaxPoints)

findCriticalPoints(parsedExpr, derivatives, xMin, xMax, yMin, yMax) ==
    IF ~parsedExpr.isValid \/ Falsy(derivatives.fx) \/ Falsy(derivatives.fy)
    THEN <<>>
    ELSE LimitPoints(ScanX(parsedExpr, derivatives, xMin, xMax, yMin, yMax))

calculateLimits(parsedExpr) ==
    [xToInf |-> "Not calculated", xToNegInf |-> "Not calculated",
     yToInf |-> "Not calculated", yToNegInf |-> "Not calculated",
     atOrigin |-> "Not calculated"]

RECURSIVE StripSpaces(_)
StripSpaces(str) ==
    IF str = <<>> THEN <<>>
    ELSE IF IsSpace(Head(str)) THEN StripSpaces(Tail(str))
    ELSE <<Head(str)>> \o StripSpaces(Tail(str))

\* /^[\d\s+\-*/^xy()]+$/.test(str)
PolynomialPattern(str) ==
    /\ str # <<>>
    /\ \A i \in 1..Len(str) :
          \/ IsDigit(str[i]) \/ IsSpace(str[i])
          \/ str[i] \in {"+", "-", "*", "/", "^", "x", "y", "(", ")"}

\* the family with the test for exp before the test for the trigonometric
\* names
FunctionTypeExpFirst(exprString) ==
    IF includes(exprString, <<"e","x","p">>) THEN "Exponential"
    ELSE IF \/ includes(exprString, <<"s","i","n">>)
            \/ includes(exprString, <<"c","o","s">>)
            \/ includes(exprString, <<"t","a","n">>)
    THEN "Trigonometric"
    ELSE IF includes(exprString, <<"l","o","g">>) THEN "Logarithmic"
    ELSE IF PolynomialPattern(StripSpaces(exprString)) THEN "Polynomial"
    ELSE "General"

\* the family of the function, from the text of the tree
FunctionType(exprString) ==
    IF \/ includes(exprString, <<"s","i","n">>)
       \/ includes(exprString, <<"c","o","s">>)
       \/ includes(exprString, <<"t","a","n">>)
    THEN "Trigonometric"
    ELSE IF includes(exprString, <<"e","x","p">>) THEN "Exponential"
    ELSE IF includes(exprString, <<"l","o","g">>) THEN "Logarithmic"
    ELSE IF PolynomialPattern(StripSpaces(exprString)) THEN "Polynomial"
    ELSE "General"

\* Math.abs(v) < 1e-10.  Every finite value of the model is a fraction
\* with a denominator below 10^10, so it is below 1e-10 only when it is 0.
BelowEpsilon(v) == v.k = "num" /\ v.n = 0

\* the probe with the odd test before the even test
SymmetryOfOddFirst(testVal, testNegVal) ==
    IF BelowEpsilon(MathAbs(NumAdd(testVal, testNegVal)))
    THEN "Odd function (f(-x) = -f(x))"
    ELSE IF BelowEpsilon(MathAbs(NumSub(testVal, testNegVal)))
    THEN "Even function (f(-x) = f(x))"
    ELSE "No obvious symmetry"

\* the even/odd probe at x = 1 and x = -1
SymmetryOf(testVal, testNegVal) ==
    IF BelowEpsilon(MathAbs(NumSub(testVal, testNegVal)))
    THEN "Even function (f(-x) = f(x))"
    ELSE IF BelowEpsilon(MathAbs(NumAdd(testVal, testNegVal)))
    THEN "Odd function (f(-x) = -f(x))"
    ELSE "No obvious symmetry"

Symmetry(parsedExpr) ==
    IF /\ variablesInclude(parsedExpr.variables, <<"x">>)
       /\ ~variablesInclude(parsedExpr.variables, <<"y">>)
    THEN SymmetryOf(evaluateExpression(parsedExpr, ScopeX(IntV(1))),
                    evaluateExpression(parsedExpr, ScopeX(IntV(-1))))
    ELSE "No obvious symmetry"

analyzeProperties(parsedExpr) ==
    [type |-> FunctionType(toString(parsedExpr.node)),
     variables |-> parsedExpr.variables,
     dimension |-> Len(parsedExpr.variables),
     symmetry |-> Symmetry(parsedExpr),
     continuity |-> "Continuous (assumed)",
     domain |-> "Real numbers (assumed)"]

AnalysisResult(parsedExpr, derivatives, xMin, xMax, yMin, yMax) ==
    [derivatives |-> derivatives,
     criticalPoints |-> findCriticalPoints(parsedExpr, derivatives,
                                           xMin, xMax, yMin, yMax),
     limits |-> calculateLimits(parsedExpr),
     properties |-> analyzeProperties(parsedExpr)]

analyzeExpression(parsedExpr, xMin, xMax, yMin, yMax) ==
    AnalysisResult(parsedExpr, calculateDerivatives(parsedExpr), xMin, xMax, yMin, yMax)

(***************************************************************************)
(* Inputs of the model                                                     *)
(***************************************************************************)
\* the largest magnitude of a domain bound typed into the controls
DomainBound == 1

\* values of parseFloat(e.target.value): numbers on and off the 0.5 grid,
\* and NaN for an emptied field
DomainValues ==
    { IntV(-DomainBound), IntV(0), Num(3, 4), IntV(DomainBound), NaN }

\* the points at which the classifier is called
ClassifyCoords == { IntV(-1), IntV(0), Num(1, 2), IntV(1) }

\* equation texts
TxParaboloid == <<"x", "^", "2", " ", "+", " ", "y", "^", "2">>
TxSaddle     == <<"x", "^", "2", " ", "-", " ", "y", "^", "2">>
TxDome       == <<"-", "x", "^", "2", " ", "-", " ", "y", "^", "2">>
TxMonkey     == <<"x", "^", "3", " ", "-", " ", "3", "*", "x", "*", "y", "^", "2">>
TxHyperbolic == <<"x", " ", "*", " ", "y">>
TxFlat       == <<"0", "*", "x", " ", "+", " ", "0", "*", "y">>
TxPole       == <<"0", "*", "x", " ", "+", " ", "0", "*", "y", " ", "+", " ", "1", "/", "0">>
TxCube       == <<"x", "^", "3">>
TxSquare     == <<"z", " ", "=", " ", "x", "^", "2">>
TxYOnly      == <<"2", "y">>
TxConstant   == <<"7">>
TxEmpty      == <<>>
TxBroken     == <<"2", " ", "+">>
TxSine       == <<"s", "i", "n", "(", "x", ")", "*", "c", "o", "s", "(", "y", ")">>
TxImplicit   == <<"x", "+", "1", "=", "y">>
TxUnknownFn  == <<"q", " ", "(", "x", ")", " ", "+", " ", "y">>
TxUnknownFnY == <<"x", " ", "+", " ", "q", " ", "(", "y", ")">>
TxMaxTerm    == <<"x", "^", "2", " ", "+", " ", "x", "*", "m", "a", "x", " ",
                  "(", "u", ",", " ", "v", ")", " ", "+", " ", "y">>
TxMaxFactor  == <<"x", "*", "y", "*", "m", "a", "x", " ", "(", "y", ",", " ", "1", ")">>
TxOtherVar   == <<"x", "*", "y", " ", "+", " ", "u">>

TxExp        == <<"e", "x", "p", "(", "x", ")", " ", "+", " ", "y">>
TxLog        == <<"l", "n", "(", "x", ")">>
TxExpTan     == <<"e", "x", "p", "(", "x", ")", "*", "t", "a", "n", "(", "y", ")">>

TxEvenZero   == <<"x", "^", "2", " ", "-", " ", "1">>
TxLopsided   == <<"x", "^", "2", " ", "+", " ", "x">>

TxEuler      == <<"x", "^", "2", " ", "+", " ", "E">>
TxEvenOther  == <<"x", "^", "2", " ", "+", " ", "u">>

Texts ==
    { TxParaboloid, TxSaddle, TxDome, TxMonkey, TxHyperbolic, TxFlat, TxPole,
      TxCube, TxSquare, TxYOnly, TxConstant, TxEmpty, TxBroken, TxSine,
      TxImplicit, TxUnknownFn, TxUnknownFnY, TxMaxTerm, TxMaxFactor, TxOtherVar,
      TxExp, TxLog, TxExpTan, TxEvenZero, TxLopsided, TxEuler, TxEvenOther }

\* texts of derivative fields handed to the classifier
DerivativeTexts ==
    { <<"2">>, <<"-", "2">>, <<"0">>, <<"1">>, <<"x">>, <<"y">>,
      <<"1", " ", "/", " ", "x">>, <<"-", "1", " ", "/", " ", "x">>,
      <<"x", " ", "/", " ", "x">>,
      <<"u">>, <<"s", "i", "n">>, <<"2", " ", "+">>, <<>> }

DerivativeFields == {Absent} \cup {Present(t) : t \in DerivativeTexts}

\* the longest text enumerated for the rewriting steps
MaxTextLen == 4

NormAlphabet == {"z", "x", "2", "=", " ", "(", ")"}

RECURSIVE TextsOfLen(_)
TextsOfLen(n) ==
    IF n = 0 THEN {<<>>}
    ELSE {Append(t, c) : t \in TextsOfLen(n - 1), c \in NormAlphabet}

ShortTexts == UNION {TextsOfLen(n) : n \in 0..MaxTextLen}

\* texts with the constants e and pi, upper case names and repeated names
TxConstants == <<"e", "^", "x", " ", "+", " ", "p", "i", "*", "Y">>
TxRepeated  == <<"b", "*", "a", " ", "+", " ", "B", "*", "a", " ", "-", " ", "b">>

VariableTexts == {TxConstants, TxRepeated}

\* texts written with the glyphs of the substitution step, with calls and
\* with more than one '='
TxGlyphs  == <<"2", "PI", "SQRT", "(", "x", ")">>
TxInverse == <<"s", "i", "n", "SUPMINUS", "SUPONE", "(", "x", ")", "TIMES",
               "l", "n", "(", "y", ")", "DIVIDE", "2", "MINUS", "x">>
TxCalls   == <<"z", " ", "=", " ", "s", "i", "n", "(", "c", "o", "s", "(",
               "x", ")", ")", "(", "y", ")", "2">>
TxChain   == <<"z", "=", "x", "=", "2">>

GlyphTexts == {TxGlyphs, TxInverse, TxCalls, TxChain}

NormTexts == ShortTexts \cup Texts \cup VariableTexts \cup GlyphTexts

\* texts and domain values entered in the App
AppTexts == {TxParaboloid, TxHyperbolic, TxCube, TxBroken}
AppDomainValues == {IntV(-DomainBound), IntV(DomainBound)}
DomainKeys == {"xMin", "xMax", "yMin", "yMax"}

\* the resolution slider: <input type="range" min="20" max="200">, whose value
\* is the decimal text of a whole position between min and max
SliderMin == 20
SliderMax == 200
SliderPositions == {SliderMin, SliderMax}
SliderTexts == {NatToDigits(p) : p \in SliderPositions}

(***************************************************************************)
(* State                                                                   *)
(***************************************************************************)
VARIABLES
    config,            \* App: the GraphConfig state
    parsedExpression,  \* App: ParsedExpression | null
    analysisData,      \* App: AnalysisData | null
    error,             \* App: string | null
    mounted,           \* App: the mount effect has run
    h                  \* the call of a pipeline function: its arguments and result

vars == <<config, parsedExpression, analysisData, error, mounted, h>>

appVars == <<config, parsedExpression, analysisData, error, mounted>>

Null == [null |-> TRUE]
NullError == "null"

\* the useState initial values of App
AppInit ==
    /\ config = [equation |-> TxParaboloid, xMin |-> IntV(-5), xMax |-> IntV(5),
                 yMin |-> IntV(-5), yMax |-> IntV(5), resolution |-> IntV(50),
                 graphType |-> "surface", showCriticalPoints |-> TRUE,
                 showDerivatives |-> FALSE, showGrid |-> TRUE]
    /\ parsedExpression = Null
    /\ analysisData = Null
    /\ error = NullError
    /\ mounted = FALSE

NoCall == [fn |-> "none"]

(***************************************************************************)
(* App                                                                     *)
(***************************************************************************)
\* updateConfig(updates) for a single key
updateConfig(cfg, key, value) == [cfg EXCEPT ![key] = value]

\* parseInt(text): the whole number written by the leading digits, NaN when
\* the text does not start with a digit
parseInt(text) ==
    IF TakeWhileDigit(text, 1) = <<>> THEN NaN
    ELSE IntV(DigitsToNat(TakeWhileDigit(text, 1)))

\* the effect of MathGrapher without the isValid test
EffectReturnsEarlyNullOnly(parsed) == parsed = Null

\* MathGrapher: if (!plotRef.current || !parsedExpression ||
\* !parsedExpression.isValid) return; plotRef is attached before effects run
EffectReturnsEarly(parsed) ==
    \/ parsed = Null
    \/ ~parsed.isValid

\* the call createMeshData(parsedExpression, config.xMin, ..., config.resolution)
\* made by createPlot; its mesh goes to Plotly and is kept in no state
MeshDataCall(cfg, parsed) ==
    [fn |-> "createMeshData", parsedExpr |-> parsed,
     xMin |-> cfg.xMin, xMax |-> cfg.xMax, yMin |-> cfg.yMin, yMax |-> cfg.yMax,
     resolution |-> cfg.resolution]

\* the effect of MathGrapher, run after the render of every change of config,
\* parsedExpression or analysisData: h is the call made by the latest render
MathGrapherEffect(cfg, parsed) ==
    h' = IF EffectReturnsEarly(parsed) THEN NoCall ELSE MeshDataCall(cfg, parsed)

\* handleEquationChange: parseMathExpression and analyzeExpression return
\* for every argument, so the catch block is never entered
SetParsedAndAnalysis(equation, parsed) ==
    /\ error' = NullError
    /\ parsedExpression' = parsed
    /\ config' = updateConfig(config, "equation", equation)
    /\ analysisData' = analyzeExpression(parsed, config.xMin, config.xMax,
                                         config.yMin, config.yMax)

handleEquationChange(equation) ==
    SetParsedAndAnalysis(equation, parseMathExpression(equation))

\* useEffect(() => handleEquationChange(config.equation), [])
Mount ==
    /\ ~mounted
    /\ mounted' = TRUE
    /\ handleEquationChange(config.equation)
    /\ MathGrapherEffect(config', parsedExpression')

\* the onChange of the equation input
EquationChange ==
    /\ mounted
    /\ \E equation \in AppTexts : handleEquationChange(equation)
    /\ MathGrapherEffect(config', parsedExpression')
    /\ UNCHANGED mounted

\* the onChange of the X Min, X Max, Y Min, Y Max inputs
DomainChange ==
    /\ mounted
    /\ \E key \in DomainKeys, value \in AppDomainValues :
          config' = updateConfig(config, key, value)
    /\ MathGrapherEffect(config', parsedExpression)
    /\ UNCHANGED <<parsedExpression, analysisData, error, mounted>>

\* the onChange of the resolution slider
ResolutionChange ==
    /\ mounted
    /\ \E value \in SliderTexts :
          config' = updateConfig(config, "resolution", parseInt(value))
    /\ MathGrapherEffect(config', parsedExpression)
    /\ UNCHANGED <<parsedExpression, analysisData, error, mounted>>

Init == AppInit /\ h = NoCall

Next == Mount \/ EquationChange \/ DomainChange \/ ResolutionChange

Spec == Init /\ [][Next]_vars

(***************************************************************************)
(* classifyCriticalPoint called on any DerivativeData and point            *)
(***************************************************************************)
InitClassify ==
    /\ AppInit
    /\ h \in [fn : {"classify"},
              fxx : DerivativeFields, fyy : DerivativeFields, fxy : DerivativeFields,
              x : ClassifyCoords, y : ClassifyCoords,
              done : {FALSE}, out : {"pending"}]

ClassifyArgs == [fx |-> Absent, fy |-> Absent, fxx |-> h.fxx, fyy |-> h.fyy, fxy |-> h.fxy]

ClassifyCall ==
    /\ ~h.done
    /\ h' = [h EXCEPT !.done = TRUE,
                      !.out = classifyCriticalPoint(ClassifyArgs, h.x, h.y)]
    /\ UNCHANGED appVars

NextClassify == ClassifyCall

SpecClassify == InitClassify /\ [][NextClassify]_vars

(***************************************************************************)
(* analyzeExpression(parseMathExpression(text), bounds) on any text and    *)
(* bounds                                                                  *)
(***************************************************************************)
InitAnalyze ==
    /\ AppInit
    /\ h \in [fn : {"analyze"}, text : Texts,
              xMin : DomainValues, xMax : DomainValues,
              yMin : DomainValues, yMax : DomainValues,
              done : {FALSE}, parsed : {Null}, out : {Null}]

AnalyzeResult(parsed) ==
    [h EXCEPT !.done = TRUE,
              !.parsed = parsed,
              !.out = analyzeExpression(parsed, h.xMin, h.xMax, h.yMin, h.yMax)]

AnalyzeCall ==
    /\ ~h.done
    /\ h' = AnalyzeResult(parseMathExpression(h.text))
    /\ UNCHANGED appVars

NextAnalyze == AnalyzeCall

SpecAnalyze == InitAnalyze /\ [][NextAnalyze]_vars

(***************************************************************************)
(* the rewriting steps of parseMathExpression on any text                  *)
(***************************************************************************)
InitNormalize ==
    /\ AppInit
    /\ h \in [fn : {"normalize"}, text : NormTexts,
              done : {FALSE}, split : {<<>>}, glyphs : {<<>>}, clean : {<<>>},
              parsed : {Null}]

NormalizeCall ==
    /\ ~h.done
    /\ h' = [h EXCEPT !.done = TRUE,
                      !.split = SplitEquation(trim(h.text)),
                      !.glyphs = SubstituteGlyphs(SplitEquation(trim(h.text))),
                      !.clean = Normalize(h.text),
                      !.parsed = parseMathExpression(h.text)]
    /\ UNCHANGED appVars

NextNormalize == NormalizeCall

SpecNormalize == InitNormalize /\ [][NextNormalize]_vars

(***************************************************************************)
(* evaluateExpression on a parsed text and a scope                         *)
(***************************************************************************)
TxRelation == <<"x", " ", "<", " ", "y">>

EvaluateTexts == Texts \cup DerivativeTexts \cup {TxRelation}

\* the largest coordinate bound in a scope
CoordBound == 4

EvaluateCoords ==
    {IntV(i) : i \in (-1)..CoordBound} \cup {Num(1, 2), NaN, PosInf}

\* the scopes { x, y } and { x }
ScopeKinds == {"xy", "x"}

ScopeOf(kind, x, y) == IF kind = "xy" THEN ScopeXY(x, y) ELSE ScopeX(x)

InitEvaluate ==
    /\ AppInit
    /\ h \in [fn : {"evaluate"}, text : EvaluateTexts, scope : ScopeKinds,
              x : EvaluateCoords, y : EvaluateCoords,
              done : {FALSE}, parsed : {Null}, out : {NaN}]

EvaluateResult(parsed) ==
    [h EXCEPT !.done = TRUE,
              !.parsed = parsed,
              !.out = evaluateExpression(parsed, ScopeOf(h.scope, h.x, h.y))]

EvaluateCall ==
    /\ ~h.done
    /\ h' = EvaluateResult(parseMathExpression(h.text))
    /\ UNCHANGED appVars

NextEvaluate == EvaluateCall

SpecEvaluate == InitEvaluate /\ [][NextEvaluate]_vars

(***************************************************************************)
(* createMeshData on a parsed text, domain bounds and a resolution         *)
(***************************************************************************)
TxReciprocal == <<"1", " ", "/", " ", "x">>

MeshTexts == {TxParaboloid, TxReciprocal, TxBroken, TxOtherVar}

\* the largest resolution (the slider of the controls goes from 20 to 200)
MaxResolution == 12

Resolutions == 1..MaxResolution

\* the number inputs of the domain are not validated: any order of the two
\* bounds, and NaN from an emptied input
MeshXValues == {IntV(-1), Num(1, 2), IntV(5), NaN}
MeshYValues == {IntV(-1), IntV(5)}

InitMesh ==
    /\ AppInit
    /\ h \in [fn : {"mesh"}, text : MeshTexts,
              xMin : MeshXValues, xMax : MeshXValues,
              yMin : MeshYValues, yMax : MeshYValues,
              resolution : Resolutions,
              done : {FALSE}, parsed : {Null}, mesh : {Null}]

MeshResult(parsed) ==
    [h EXCEPT !.done = TRUE,
              !.parsed = parsed,
              !.mesh = createMeshData(parsed, h.xMin, h.xMax, h.yMin, h.yMax,
                                      h.resolution)]

MeshCall ==
    /\ ~h.done
    /\ h' = MeshResult(parseMathExpression(h.text))
    /\ UNCHANGED appVars

NextMesh == MeshCall

SpecMesh == InitMesh /\ [][NextMesh]_vars

(***************************************************************************)
(* The four stages on one text: parseMathExpression, evaluateExpression,   *)
(* createMeshData and analyzeExpression                                    *)
(***************************************************************************)
StageTexts == Texts \cup {TxReciprocal, TxRelation}

\* the largest resolution of a mesh in the four stages
StageResolution == 3

\* bounds whose steps are whole numbers for every resolution up to 4
StageBounds == {IntV(0), IntV(3), NaN}

StageCoords == {IntV(0), NaN}

InitStages ==
    /\ AppInit
    /\ h \in [fn : {"stages"}, text : StageTexts, scope : ScopeKinds,
              x : StageCoords,
              xMin : StageBounds, xMax : StageBounds,
              yMin : StageBounds, yMax : StageBounds,
              resolution : 2..StageResolution,
              done : {FALSE}, parsed : {Null}, value : {NaN},
              mesh : {Null}, analysis : {Null}]

StagesResult(parsed) ==
    [h EXCEPT !.done = TRUE,
              !.parsed = parsed,
              !.value = evaluateExpression(parsed, ScopeOf(h.scope, h.x, h.x)),
              !.mesh = createMeshData(parsed, h.xMin, h.xMax, h.yMin, h.yMax,
                                      h.resolution),
              !.analysis = analyzeExpression(parsed, h.xMin, h.xMax,
                                             h.yMin, h.yMax)]

StagesCall ==
    /\ ~h.done
    /\ h' = StagesResult(parseMathExpression(h.text))
    /\ UNCHANGED appVars

NextStages == StagesCall

SpecStages == InitStages /\ [][NextStages]_vars

(***************************************************************************)
(* The two loops of findCriticalPoints, one test or iteration per step     *)
(***************************************************************************)
ScanTexts == {TxFlat, TxMaxTerm, TxBroken}

\* the first whole number whose neighbours are a whole step apart, so that
\* adding 0.5 to it rounds back to it (2^52 for the number type)
LargeBound == 2 ^ (Precision - 1)

ScanBounds == {IntV(-1), IntV(1), IntV(LargeBound)}

\* the counters of the harness stop counting here
MaxVisits == 30

Counted(n) == IF n < MaxVisits THEN n ELSE MaxVisits

\* parse(derivatives.fx), parse(derivatives.fy): the loop body parses the two
\* texts again at every candidate, with the same result each time
ParsedField(field) == IF Falsy(field) THEN [ok |-> FALSE] ELSE parse(field.text)

ScanNodes(parsedExpr, derivatives) ==
    [parsedExpr : {parsedExpr}, derivatives : {derivatives},
     fxNode : {ParsedField(derivatives.fx)}, fyNode : {ParsedField(derivatives.fy)}]

\* the arguments analyzeExpression hands to findCriticalPoints
ScanArguments(parsedExpr) == ScanNodes(parsedExpr, calculateDerivatives(parsedExpr))

ScanCalls == UNION {ScanArguments(parseMathExpression(t)) : t \in ScanTexts}

InitScan ==
    /\ AppInit
    /\ \E call \in ScanCalls :
          h \in [fn : {"scan"}, parsed : {call.parsedExpr},
                 derivatives : {call.derivatives},
                 fxNode : {call.fxNode}, fyNode : {call.fyNode},
                 xMin : ScanBounds, xMax : ScanBounds,
                 yMin : ScanBounds, yMax : ScanBounds,
                 pc : {"start"}, entered : {FALSE},
                 x : {IntV(0)}, y : {IntV(0)},
                 visits : {0}, raised : {0}, pushed : {0}]

\* if (!parsedExpr.isValid || !derivatives.fx || !derivatives.fy) return;
\* otherwise let x = xMin
ScanEnter ==
    /\ h.pc = "start"
    /\ h' = IF \/ ~h.parsed.isValid
               \/ Falsy(h.derivatives.fx) \/ Falsy(h.derivatives.fy)
            THEN [h EXCEPT !.pc = "done"]
            ELSE [h EXCEPT !.pc = "outer", !.entered = TRUE, !.x = h.xMin]
    /\ UNCHANGED appVars

\* the test x <= xMax of the outer loop, then let y = yMin
ScanOuter ==
    /\ h.pc = "outer"
    /\ h' = IF NumLe(h.x, h.xMax)
            THEN [h EXCEPT !.pc = "inner", !.y = h.yMin]
            ELSE [h EXCEPT !.pc = "done"]
    /\ UNCHANGED appVars

\* the candidate raised in the evaluation of fx or fy
CandidateRaised(fxVal, fyVal) == IsThrown(fxVal) \/ IsThrown(fyVal)

\* the candidate is pushed: nothing raised, both values within the tolerance
\* and z finite (classifyCriticalPoint returns for every argument)
CandidatePushed(fxVal, fyVal, z) ==
    /\ ~CandidateRaised(fxVal, fyVal)
    /\ NearZero(fxVal, fyVal)
    /\ isFinite(z)

\* the loop body at (x, y) and y += step
ScanBody(fxVal, fyVal, z) ==
    [h EXCEPT !.visits = Counted(h.visits + 1),
              !.raised = Counted(h.raised +
                             IF CandidateRaised(fxVal, fyVal) THEN 1 ELSE 0),
              !.pushed = Counted(h.pushed +
                             IF CandidatePushed(fxVal, fyVal, z) THEN 1 ELSE 0),
              !.y = FlAdd(h.y, step)]

\* the test y <= yMax of the inner loop; the loop body, or x += step when
\* the inner loop is left
ScanInner ==
    /\ h.pc = "inner"
    /\ h' = IF NumLe(h.y, h.yMax)
            THEN ScanBody(EvaluateParsed(h.fxNode, h.x, h.y),
                          EvaluateParsed(h.fyNode, h.x, h.y),
                          evaluateExpression(h.parsed, ScopeXY(h.x, h.y)))
            ELSE [h EXCEPT !.pc = "outer", !.x = FlAdd(h.x, step)]
    /\ UNCHANGED appVars

NextScan == ScanEnter \/ ScanOuter \/ ScanInner

\* the loops run to their end unless a step leaves the state as it is
SpecScan == InitScan /\ [][NextScan]_vars /\ WF_vars(NextScan)

(***************************************************************************)
(* Properties of classifyCriticalPoint (SpecClassify)                      *)
(***************************************************************************)
ClassifyDone == h.fn = "classify" /\ h.done

FxxAt == EvaluateDerivative(h.fxx, h.x, h.y)
FyyAt == EvaluateDerivative(h.fyy, h.x, h.y)
FxyAt == EvaluateDerivative(h.fxy, h.x, h.y)

AllSecondPresent == ~Falsy(h.fxx) /\ ~Falsy(h.fyy) /\ ~Falsy(h.fxy)

\* the three second derivatives are present and evaluate to real numbers
C1_Case ==
    /\ ClassifyDone
    /\ AllSecondPresent
    /\ FxxAt.k = "num" /\ FyyAt.k = "num" /\ FxyAt.k = "num"

\* fxx*fyy and fxy^2 brought to the common denominator of the three fractions
C1_Product == FxxAt.n * FyyAt.n * FxyAt.d * FxyAt.d
C1_Square  == FxyAt.n * FxyAt.n * FxxAt.d * FyyAt.d

\* C1: when fxx, fyy and fxy are present and evaluate to real numbers at
\* (x, y), the result is 'minimum' iff D > 0 and fxx > 0, 'maximum' iff D > 0
\* and fxx <= 0, 'saddle' iff D < 0 and 'unknown' iff D = 0, for
\* D = fxx*fyy - fxy^2.
C1_SecondDerivativeTest ==
    C1_Case =>
        /\ (h.out = "minimum") <=> (C1_Product > C1_Square /\ FxxAt.n > 0)
        /\ (h.out = "maximum") <=> (C1_Product > C1_Square /\ FxxAt.n <= 0)
        /\ (h.out = "saddle")  <=> (C1_Product < C1_Square)
        /\ (h.out = "unknown") <=> (C1_Product = C1_Square)

\* fxx = -1/x, fyy = -2, fxy = 1 at x = 1/2: D = 3 > 0 with fxx < 0
C1_Witness ==
    /\ C1_Case
    /\ h.fxx = Present(<<"-", "1", " ", "/", " ", "x">>)
    /\ h.fyy = Present(<<"-", "2">>)
    /\ h.fxy = Present(<<"1">>)
    /\ h.x = Num(1, 2)
    /\ h.out = "maximum"

\* one of the three values is absent, fails to parse or evaluate, or is not
\* a finite number
C9_Case ==
    /\ ClassifyDone
    /\ \/ ~AllSecondPresent
       \/ IsThrown(FxxAt) \/ IsThrown(FyyAt) \/ IsThrown(FxyAt)
       \/ ~isFinite(FxxAt) \/ ~isFinite(FyyAt) \/ ~isFinite(FxyAt)

\* C9: classifyCriticalPoint returns 'unknown' whenever one of fxx, fyy, fxy
\* is absent, fails to parse or evaluate at (x, y), or yields a value that is
\* not a finite number.
C9_UnknownOnFailure == C9_Case => h.out = "unknown"

\* the part of C9 the code keeps: absent fields, failed parses and
\* evaluations, and NaN values give 'unknown'
C9_UnknownOnAbsentOrThrown ==
    (/\ ClassifyDone
     /\ \/ ~AllSecondPresent
        \/ IsThrown(FxxAt) \/ IsThrown(FyyAt) \/ IsThrown(FxyAt)
        \/ ToNumber(FxxAt).k = "nan" \/ ToNumber(FyyAt).k = "nan"
        \/ ToNumber(FxyAt).k = "nan")
    => h.out = "unknown"

\* fxx = 1/x is Infinity at x = 0, and the result is 'minimum'
C9_InfiniteSecondDerivative ==
    /\ ClassifyDone
    /\ h.fxx = Present(<<"1", " ", "/", " ", "x">>)
    /\ h.fyy = Present(<<"2">>)
    /\ h.fxy = Present(<<"0">>)
    /\ h.x = IntV(0)
    /\ FxxAt = PosInf
    /\ h.out = "minimum"

(***************************************************************************)
(* Properties of calculateDerivatives and findCriticalPoints (SpecAnalyze) *)
(***************************************************************************)
AnalyzeDone == h.fn = "analyze" /\ h.done

\* name is one of the free variables of the parsed expression
IsFree(name) == \E i \in 1..Len(h.parsed.variables) : h.parsed.variables[i] = name

\* the number of values lo, lo + 0.5, lo + 1, ... that do not exceed hi
GridCount(lo, hi) ==
    IF lo.k = "num" /\ hi.k = "num" /\ lo.n * hi.d <= hi.n * lo.d
    THEN (2 * (hi.n * lo.d - lo.n * hi.d)) \div (lo.d * hi.d) + 1
    ELSE 0

\* lo + 0.5*a
GridValue(lo, a) == Num(2 * lo.n + a * lo.d, 2 * lo.d)

\* |v| < 0.1 for the value v of a derivative
WithinTolerance(v) ==
    LET w == ToNumber(v)
    IN  w.k = "num" /\ 10 * AbsInt(w.n) < w.d

\* the scan candidate (x, y) passes every test of the loop body
Qualifies(x, y) ==
    LET fxVal == EvaluateDerivative(h.out.derivatives.fx, x, y)
        fyVal == EvaluateDerivative(h.out.derivatives.fy, x, y)
    IN  /\ h.parsed.isValid
        /\ ~IsThrown(fxVal) /\ ~IsThrown(fyVal)
        /\ WithinTolerance(fxVal) /\ WithinTolerance(fyVal)
        /\ isFinite(evaluateExpression(h.parsed, ScopeXY(x, y)))

\* the scan candidates in scan order: x outer ascending, y inner ascending
Candidates ==
    LET nx == GridCount(h.xMin, h.xMax)
        ny == GridCount(h.yMin, h.yMax)
    IN  [k \in 1..(nx * ny) |->
            [x |-> GridValue(h.xMin, (k - 1) \div ny),
             y |-> GridValue(h.yMin, (k - 1) % ny)]]

QualifiesAt(c) == Qualifies(c.x, c.y)

QualifyingCandidates == SelectSeq(Candidates, QualifiesAt)

ReturnedPoints == h.out.criticalPoints

ReturnedAt == [i \in 1..Len(ReturnedPoints) |->
                  [x |-> ReturnedPoints[i].x, y |-> ReturnedPoints[i].y]]

\* C2: findCriticalPoints returns the first min(10, n) of the n qualifying
\* scan candidates, in scan order, neither deduplicated nor reordered.
C2_FirstTenInScanOrder ==
    AnalyzeDone =>
        LET n == Len(QualifyingCandidates)
            m == IF n < 10 THEN n ELSE 10
        IN  /\ Len(ReturnedPoints) <= 10
            /\ ReturnedAt = SubSeq(QualifyingCandidates, 1, m)

\* more than ten candidates qualify and ten points are returned
C2_Witness ==
    /\ AnalyzeDone
    /\ Len(QualifyingCandidates) > 10
    /\ Len(ReturnedPoints) = 10

\* C3: every returned point lies on the 0.5 grid inside the domain, passes
\* the tolerance test on fx and fy, carries the finite value of the
\* expression as z and the classification as type; and while fewer than ten
\* points are returned, every candidate passing these tests is returned.
C3_ReturnedPointsQualify ==
    AnalyzeDone =>
        /\ \A i \in 1..Len(ReturnedPoints) :
              LET p == ReturnedPoints[i]
              IN  /\ \E a \in 0..(GridCount(h.xMin, h.xMax) - 1) :
                        p.x = GridValue(h.xMin, a) /\ NumLe(p.x, h.xMax)
                  /\ \E b \in 0..(GridCount(h.yMin, h.yMax) - 1) :
                        p.y = GridValue(h.yMin, b) /\ NumLe(p.y, h.yMax)
                  /\ WithinTolerance(EvaluateDerivative(h.out.derivatives.fx, p.x, p.y))
                  /\ WithinTolerance(EvaluateDerivative(h.out.derivatives.fy, p.x, p.y))
                  /\ isFinite(p.z)
                  /\ p.z = evaluateExpression(h.parsed, ScopeXY(p.x, p.y))
                  /\ p.type = classifyCriticalPoint(h.out.derivatives, p.x, p.y)
        /\ Len(ReturnedPoints) < 10 =>
              \A k \in 1..Len(Candidates) :
                  QualifiesAt(Candidates[k]) =>
                      \E i \in 1..Len(ReturnedPoints) : ReturnedAt[i] = Candidates[k]

\* x*y on a domain around the origin: the saddle at the origin is returned
\* and the other candidates are rejected
C3_Witness ==
    /\ AnalyzeDone
    /\ h.text = TxHyperbolic
    /\ h.xMin = IntV(-DomainBound) /\ h.yMin = IntV(-DomainBound)
    /\ Len(ReturnedPoints) = 1
    /\ ReturnedPoints[1] = [x |-> IntV(0), y |-> IntV(0), z |-> IntV(0),
                            type |-> "saddle"]
    /\ Len(Candidates) > 1

\* C8: findCriticalPoints returns no point when fx or fy is absent, when the
\* expression is invalid, and in particular when x and y are not both free
\* variables, whatever the domain.
C8_EmptyWithoutBothPartials ==
    (/\ AnalyzeDone
     /\ \/ Falsy(h.out.derivatives.fx)
        \/ Falsy(h.out.derivatives.fy)
        \/ ~h.parsed.isValid
        \/ ~IsFree(<<"x">>)
        \/ ~IsFree(<<"y">>))
    => ReturnedPoints = <<>>

\* x^3 over a domain holding the origin: fx vanishes there, fy is absent
C8_Witness ==
    /\ AnalyzeDone
    /\ h.text = TxCube
    /\ ~Falsy(h.out.derivatives.fx)
    /\ Falsy(h.out.derivatives.fy)
    /\ Len(Candidates) > 0
    /\ WithinTolerance(EvaluateDerivative(h.out.derivatives.fx, IntV(0), IntV(0)))
    /\ NumLe(h.xMin, IntV(0)) /\ NumLe(IntV(0), h.xMax)
    /\ ReturnedPoints = <<>>

Derivs == h.out.derivatives

\* the outcome of each differentiation taken on its own
StepFx  == derivative(h.parsed.node, <<"x">>)
StepFy  == derivative(h.parsed.node, <<"y">>)
StepFxx == IF StepFx.ok THEN derivative(StepFx.node, <<"x">>) ELSE DFail
StepFxy == IF StepFx.ok THEN derivative(StepFx.node, <<"y">>) ELSE DFail
StepFyy == IF StepFy.ok THEN derivative(StepFy.node, <<"y">>) ELSE DFail

\* no differentiation step that the branches attempt fails
NoStepFails ==
    /\ IsFree(<<"x">>) => StepFx.ok /\ StepFxx.ok /\ (IsFree(<<"y">>) => StepFxy.ok)
    /\ IsFree(<<"y">>) => StepFy.ok /\ StepFyy.ok

\* C4: fx is present only with x free, fy only with y free, fxx only with
\* fx, fyy only with fy, fxy only with fx and both x and y free; on a valid
\* expression none of whose differentiation steps fails, each implication is
\* an equivalence.
C4_FieldPresence ==
    AnalyzeDone =>
        /\ Derivs.fx.present  => IsFree(<<"x">>)
        /\ Derivs.fy.present  => IsFree(<<"y">>)
        /\ Derivs.fxx.present => Derivs.fx.present
        /\ Derivs.fyy.present => Derivs.fy.present
        /\ Derivs.fxy.present => Derivs.fx.present /\ IsFree(<<"x">>) /\ IsFree(<<"y">>)
        /\ (h.parsed.isValid /\ NoStepFails) =>
              /\ Derivs.fx.present  <=> IsFree(<<"x">>)
              /\ Derivs.fy.present  <=> IsFree(<<"y">>)
              /\ Derivs.fxx.present <=> Derivs.fx.present
              /\ Derivs.fyy.present <=> Derivs.fy.present
              /\ Derivs.fxy.present <=> (Derivs.fx.present /\ IsFree(<<"x">>)
                                         /\ IsFree(<<"y">>))

\* x^3: fx and fxx are present, and fxy is absent though fx can be
\* differentiated by y
C4_Witness ==
    /\ AnalyzeDone
    /\ h.text = TxCube
    /\ h.parsed.isValid /\ NoStepFails
    /\ Derivs.fx.present /\ Derivs.fxx.present
    /\ ~Derivs.fxy.present /\ ~Derivs.fy.present
    /\ StepFxy.ok

\* C5: on a valid expression every derivative field whose branch is entered
\* and whose own differentiation succeeds is present, whatever happens to
\* its siblings.
C5_StepsIndependent ==
    (AnalyzeDone /\ h.parsed.isValid) =>
        /\ (IsFree(<<"x">>) /\ StepFx.ok)  => Derivs.fx.present
        /\ (IsFree(<<"x">>) /\ StepFxx.ok) => Derivs.fxx.present
        /\ (IsFree(<<"x">>) /\ IsFree(<<"y">>) /\ StepFxy.ok) => Derivs.fxy.present
        /\ (IsFree(<<"y">>) /\ StepFy.ok)  => Derivs.fy.present
        /\ (IsFree(<<"y">>) /\ StepFyy.ok) => Derivs.fyy.present

\* the part of C5 the code keeps: the x branch and the y branch do not
\* depend on each other, and fx and fy survive a failure of fxx and fyy
C5_BranchesIndependent ==
    (AnalyzeDone /\ h.parsed.isValid) =>
        /\ (IsFree(<<"x">>) /\ StepFx.ok)  => Derivs.fx.present
        /\ (IsFree(<<"x">>) /\ StepFxx.ok) => Derivs.fxx.present
        /\ (IsFree(<<"y">>) /\ StepFy.ok)  => Derivs.fy.present
        /\ (IsFree(<<"y">>) /\ StepFyy.ok) => Derivs.fyy.present

\* x^2 + x*max (u, v) + y: fxx fails on the two-argument call, and fxy is
\* absent though fx differentiates by y
C5_MixedPartialLost ==
    /\ AnalyzeDone
    /\ h.text = TxMaxTerm
    /\ Derivs.fx.present
    /\ ~StepFxx.ok /\ ~Derivs.fxx.present
    /\ StepFxy.ok /\ ~Derivs.fxy.present
    /\ Derivs.fy.present /\ Derivs.fyy.present

\* q (x) + y: the x branch fails at fx, and fy and fyy are present
C5_YBranchSurvives ==
    /\ AnalyzeDone
    /\ h.text = TxUnknownFn
    /\ ~StepFx.ok /\ ~Derivs.fx.present
    /\ Derivs.fy.present /\ Derivs.fyy.present

(***************************************************************************)
(* Properties of the rewriting steps (SpecNormalize)                       *)
(***************************************************************************)
NormalizeDone == h.fn = "normalize" /\ h.done

EqualsPositions == {i \in 1..Len(h.text) : h.text[i] = "="}

\* the text on each side of the '=' at position i, without outer blanks
LeftOf(i)  == trim(SubSeq(h.text, 1, i - 1))
RightOf(i) == trim(SubSeq(h.text, i + 1, Len(h.text)))

\* C10: with exactly one '=' in the text, the rewriting continues with the
\* right side alone when the trimmed left side is z, y or f, and with
\* "(left) - (right)" otherwise; "z = x^2" normalizes to "x^2" and "x+1=y"
\* to "(x+1) - (y)".
C10_SingleEquals ==
    NormalizeDone =>
        /\ \A i \in EqualsPositions :
              EqualsPositions = {i} =>
                  IF LeftOf(i) \in {<<"z">>, <<"y">>, <<"f">>}
                  THEN h.split = RightOf(i)
                  ELSE h.split = <<"(">> \o LeftOf(i) \o <<")", " ", "-", " ", "(">>
                                 \o RightOf(i) \o <<")">>
        /\ h.text = TxSquare => h.clean = <<"x", "^", "2">>
        /\ h.text = TxImplicit =>
              h.clean = <<"(", "x", "+", "1", ")", " ", "-", " ", "(", "y", ")">>

\* "z = x^2": the left side is z once the blanks around it are dropped
C10_Witness ==
    /\ NormalizeDone
    /\ h.text = TxSquare
    /\ EqualsPositions = {3}
    /\ LeftOf(3) = <<"z">>
    /\ h.split = <<"x", "^", "2">>

\* C6: a recognised function name directly followed by '(' keeps its call
\* syntax through the rewriting, and the parsed expression evaluates to the
\* value of the function: sin(x)*cos(y) is 0 at the origin.
C6_FunctionCallsPreserved ==
    NormalizeDone =>
        /\ \A name \in MathFunctionNames :
              includes(h.text, name \o <<"(">>) =>
                  ~includes(h.clean, name \o <<"*", "(">>)
        /\ h.text = TxSine =>
              evaluateExpression(h.parsed, ScopeXY(IntV(0), IntV(0))) = IntV(0)

\* sin(x)*cos(y) becomes sin*(x)*cos*(y), parses, and evaluates to NaN
C6_CallBroken ==
    /\ NormalizeDone
    /\ h.text = TxSine
    /\ h.clean = <<"s", "i", "n", "*", "(", "x", ")", "*",
                   "c", "o", "s", "*", "(", "y", ")">>
    /\ h.parsed.isValid
    /\ evaluateExpression(h.parsed, ScopeXY(IntV(0), IntV(0))) = NaN

(***************************************************************************)
(* Properties of the App (Spec)                                            *)
(***************************************************************************)
CurrentAnalysis ==
    analyzeExpression(parseMathExpression(config.equation),
                      config.xMin, config.xMax, config.yMin, config.yMax)

\* C7: after any sequence of equation edits and domain changes the stored
\* analysis is analyzeExpression of the current equation on the current
\* domain bounds.
C7_AnalysisCurrent == mounted => analysisData = CurrentAnalysis

\* the part of C7 the code keeps: the stored analysis belongs to the current
\* equation, on the bounds of some earlier moment
C7_AnalysisOfCurrentEquation ==
    mounted =>
        /\ parsedExpression = parseMathExpression(config.equation)
        /\ analysisData.derivatives = CurrentAnalysis.derivatives
        /\ analysisData.properties = CurrentAnalysis.properties

\* x^2 + y^2 after the X Min field is set to 1: the stored analysis still
\* lists the minimum at the origin, which the domain no longer holds
C7_StaleAfterDomainChange ==
    /\ mounted
    /\ config.equation = TxParaboloid
    /\ config.xMin = IntV(DomainBound)
    /\ Len(analysisData.criticalPoints) = 1
    /\ CurrentAnalysis.criticalPoints = <<>>

(***************************************************************************)
(* Properties of the implicit multiplication step (SpecNormalize)          *)
(***************************************************************************)
\* two neighbouring characters between which a product is implied
Adjacent(a, b) ==
    \/ IsDigit(a) /\ IsLetter(b)
    \/ IsLetter(a) /\ IsDigit(b)
    \/ a = ")" /\ (IsLetter(b) \/ b = "(")
    \/ IsLetter(a) /\ b = "("

\* the text s from position i on with one '*' between every adjacent pair
RECURSIVE WithStars(_, _)
WithStars(s, i) ==
    IF i > Len(s) THEN <<>>
    ELSE IF i < Len(s) /\ Adjacent(s[i], s[i + 1])
         THEN <<s[i], "*">> \o WithStars(s, i + 1)
    ELSE <<s[i]>> \o WithStars(s, i + 1)

AdjacentPositions(s) == {i \in 1..(Len(s) - 1) : Adjacent(s[i], s[i + 1])}

ParsedExpressionFields == {"node", "variables", "isValid", "errorMessage"}

\* the host parser accepts the rewritten text
HostParserAccepts == parse(h.clean).ok

\* C12: parseMathExpression always returns a ParsedExpression and never
\* raises; when parsing fails the result has isValid = false, an error
\* message, no variables and the constant 0 as node; when it succeeds the
\* result has isValid = true and no error message.
C12_ParseTotal ==
    NormalizeDone =>
        /\ DOMAIN h.parsed = ParsedExpressionFields
        /\ h.parsed.isValid = HostParserAccepts
        /\ h.parsed.isValid =>
              /\ h.parsed.errorMessage = NoMessage
              /\ h.parsed.node = parse(h.clean).node
        /\ ~h.parsed.isValid =>
              /\ h.parsed.errorMessage # NoMessage
              /\ h.parsed.variables = <<>>
              /\ toString(h.parsed.node) = <<"0">>
              /\ isConstantNode(h.parsed.node)

\* "2 +" is rejected by the host parser and gives the placeholder result
C12_Witness ==
    /\ NormalizeDone
    /\ h.text = TxBroken
    /\ ~HostParserAccepts
    /\ ~h.parsed.isValid
    /\ h.parsed.variables = <<>>
    /\ toString(h.parsed.node) = <<"0">>

(***************************************************************************)
(* Properties of evaluateExpression (SpecEvaluate)                         *)
(***************************************************************************)
EvaluateDone == h.fn = "evaluate" /\ h.done

HarnessScope == ScopeOf(h.scope, h.x, h.y)

\* what node.evaluate(variables) gives, a thrown error included
RawResult == Evaluate(h.parsed.node, HarnessScope)

\* a variable of the expression has no binding in the scope and no value
\* in the host library
MissingBinding ==
    \E i \in 1..Len(h.parsed.variables) :
        /\ h.parsed.variables[i] \notin DOMAIN HarnessScope
        /\ h.parsed.variables[i] \notin EulerNames

C13_FunctionValueIsNaN ==
    /\ EvaluateDone
    /\ h.text = <<"s", "i", "n">>
    /\ RawResult = FnVal
    /\ h.out = NaN

(***************************************************************************)
(* Properties of createMeshData (SpecMesh)                                 *)
(***************************************************************************)
MeshDone == h.fn = "mesh" /\ h.done

\* N and the index range of the grids (index 0 of the source is 1 here)
MeshN == h.resolution
MeshIndex == 1..MeshN

FiniteBounds ==
    isFinite(h.xMin) /\ isFinite(h.xMax) /\ isFinite(h.yMin) /\ isFinite(h.yMax)

IsGrid(g) == Len(g) = MeshN /\ \A i \in MeshIndex : Len(g[i]) = MeshN

HarnessXStep == FlDiv(FlSub(h.xMax, h.xMin), IntV(MeshN - 1))
HarnessYStep == FlDiv(FlSub(h.yMax, h.yMin), IntV(MeshN - 1))

\* the three grids are N x N and every coordinate is min + j * step
C14_GridShape ==
    (MeshDone /\ MeshN >= 2 /\ FiniteBounds) =>
        /\ IsGrid(h.mesh.x) /\ IsGrid(h.mesh.y) /\ IsGrid(h.mesh.z)
        /\ \A i \in MeshIndex : \A j \in MeshIndex :
              /\ h.mesh.x[i][j] = FlAdd(h.xMin, FlMul(IntV(j - 1), HarnessXStep))
              /\ h.mesh.y[i][j] = FlAdd(h.yMin, FlMul(IntV(i - 1), HarnessYStep))

\* the first column of x is xMin and the first row of y is yMin
C14_FirstSamples ==
    (MeshDone /\ MeshN >= 2 /\ FiniteBounds) =>
        \A i \in MeshIndex :
            h.mesh.x[i][1] = h.xMin /\ h.mesh.y[1][i] = h.yMin

\* the last column of x is xMax and the last row of y is yMax
C14_LastSamples ==
    (MeshDone /\ MeshN >= 2 /\ FiniteBounds) =>
        \A i \in MeshIndex :
            h.mesh.x[i][MeshN] = h.xMax /\ h.mesh.y[MeshN][i] = h.yMax

\* C14: for N >= 2 createMeshData returns three N x N grids with
\* x[i][j] = xMin + j*xStep and y[i][j] = yMin + i*yStep, where
\* xStep = (xMax - xMin)/(N - 1) and yStep = (yMax - yMin)/(N - 1); the
\* first samples are xMin and yMin and the last samples are xMax and yMax.
C14_MeshGrid == C14_GridShape /\ C14_FirstSamples /\ C14_LastSamples

\* on [-1, 5] with 12 samples the step 6/11 is rounded and the last sample
\* of x is below xMax
C14_LastSampleMissed ==
    /\ MeshDone
    /\ h.xMin = IntV(-1) /\ h.xMax = IntV(5) /\ MeshN = 12
    /\ h.mesh.x[1][1] = h.xMin
    /\ NumLt(h.mesh.x[1][MeshN], h.xMax)

\* x does not decrease along a row
XNonDecreasing ==
    \A i \in MeshIndex : \A j \in 1..(MeshN - 1) :
        NumLe(h.mesh.x[i][j], h.mesh.x[i][j + 1])

\* every row of x is the first row
XConstantAcrossRows ==
    \A i \in MeshIndex : \A j \in MeshIndex : h.mesh.x[i][j] = h.mesh.x[1][j]

\* every coordinate pair lies in the rectangle of the domain bounds
WithinDomain ==
    \A i \in MeshIndex : \A j \in MeshIndex :
        /\ NumLe(h.xMin, h.mesh.x[i][j]) /\ NumLe(h.mesh.x[i][j], h.xMax)
        /\ NumLe(h.yMin, h.mesh.y[i][j]) /\ NumLe(h.mesh.y[i][j], h.yMax)

\* C15: for every call with N >= 2 and any domain bounds the controls can
\* supply, x[i][j] is non-decreasing in j and constant across i, and every
\* coordinate pair lies within [xMin, xMax] x [yMin, yMax].
C15_MeshInvariant ==
    (MeshDone /\ MeshN >= 2) =>
        XNonDecreasing /\ XConstantAcrossRows /\ WithinDomain

\* what the code keeps: the rows of x are equal for any bounds, and x does
\* not decrease and no coordinate is below its lower bound when the bounds
\* are finite and ordered
C15_OrderedBounds ==
    (MeshDone /\ MeshN >= 2) =>
        /\ XConstantAcrossRows
        /\ (FiniteBounds /\ NumLe(h.xMin, h.xMax) /\ NumLe(h.yMin, h.yMax)) =>
              /\ XNonDecreasing
              /\ \A i \in MeshIndex : \A j \in MeshIndex :
                    /\ NumLe(h.xMin, h.mesh.x[i][j])
                    /\ NumLe(h.yMin, h.mesh.y[i][j])

\* X Min 5 with X Max -1: the samples of a row run from 5 down to -1
C15_InvertedBounds ==
    /\ MeshDone
    /\ MeshN = 2
    /\ h.xMin = IntV(5) /\ h.xMax = IntV(-1)
    /\ h.mesh.x[1] = <<IntV(5), IntV(-1)>>
    /\ ~XNonDecreasing /\ ~WithinDomain

\* evaluateExpression at the coordinates stored in the grids
ValueAt(i, j) ==
    evaluateExpression(h.parsed, ScopeXY(h.mesh.x[i][j], h.mesh.y[i][j]))

\* C16: z[i][j] is null exactly when evaluateExpression at
\* (x[i][j], y[i][j]) is NaN or infinite, and is that value otherwise; z
\* holds no NaN and no infinity.
C16_NullExactlyWhenNotFinite ==
    MeshDone =>
        \A i \in MeshIndex : \A j \in MeshIndex :
            /\ (h.mesh.z[i][j] = NullValue) <=> (ValueAt(i, j).k \in {"nan", "inf"})
            /\ (h.mesh.z[i][j] # NullValue) => h.mesh.z[i][j] = ValueAt(i, j)
            /\ h.mesh.z[i][j].k \in {"null", "num"}

\* 1 / x on [-1, 1/2] with 4 samples: the third sample is x = 0, where the
\* value is Infinity and the cell is null; the fourth cell holds 2
C16_Witness ==
    /\ MeshDone
    /\ h.text = TxReciprocal
    /\ h.xMin = IntV(-1) /\ h.xMax = Num(1, 2) /\ MeshN = 4
    /\ h.mesh.x[1][3] = IntV(0)
    /\ ValueAt(1, 3) = PosInf
    /\ h.mesh.z[1][3] = NullValue
    /\ h.mesh.z[1][4] = IntV(2)

(***************************************************************************)
(* Properties of extractVariables (SpecNormalize)                          *)
(***************************************************************************)
\* the names of the symbol nodes of the parsed tree
SymbolNames ==
    LET nodes == Traverse(h.parsed.node)
    IN  {nodes[i].name : i \in {k \in 1..Len(nodes) : isSymbolNode(nodes[k])}}

\* a single ASCII letter other than e
SingleLetterNotE(name) ==
    Len(name) = 1 /\ IsLetter(name[1]) /\ name # <<"e">>

ReportedNames == {h.parsed.variables[i] : i \in 1..Len(h.parsed.variables)}

\* C17: the variables of a parsed expression are, without duplicates and
\* in ascending order, exactly the names of its symbol nodes that are a
\* single ASCII letter other than e; pi, e and the function names are never
\* among them, and sin(x)*cos(y) gives x, y.
C17_VariablesExact ==
    (NormalizeDone /\ h.parsed.isValid) =>
        /\ ReportedNames = {name \in SymbolNames : SingleLetterNotE(name)}
        /\ Cardinality(ReportedNames) = Len(h.parsed.variables)
        /\ \A i \in 1..(Len(h.parsed.variables) - 1) :
              CharCode(h.parsed.variables[i][1])
                  < CharCode(h.parsed.variables[i + 1][1])
        /\ ReportedNames \cap (ExcludedNames \cup MathFunctionNames) = {}
        /\ h.text = TxSine => h.parsed.variables = <<<<"x">>, <<"y">>>>

\* b*a + B*a - b: the names are met in the order b, a, B and reported as
\* B, a, b
C17_Witness ==
    /\ NormalizeDone
    /\ h.text = TxRepeated
    /\ h.parsed.isValid
    /\ SymbolNames = {<<"a">>, <<"b">>, <<"B">>}
    /\ h.parsed.variables = <<<<"B">>, <<"a">>, <<"b">>>>

\* e^x + pi*Y: e and pi are symbols of the tree and are not reported
C17_ConstantsLeftOut ==
    /\ NormalizeDone
    /\ h.text = TxConstants
    /\ {<<"e">>, <<"p", "i">>} \subseteq SymbolNames
    /\ h.parsed.variables = <<<<"Y">>, <<"x">>>>

(***************************************************************************)
(* Properties of analyzeProperties (SpecAnalyze)                           *)
(***************************************************************************)
\* the text of the parsed tree
ExprText == toString(h.parsed.node)

HasTrig ==
    \E name \in {<<"s","i","n">>, <<"c","o","s">>, <<"t","a","n">>} :
        includes(ExprText, name)
HasExp == includes(ExprText, <<"e","x","p">>)
HasLog == includes(ExprText, <<"l","o","g">>)

\* without its whitespace the text is not empty and has only digits, the
\* operators + - * / ^, x, y and parentheses
PolynomialText ==
    LET chars == {ExprText[i] : i \in {k \in 1..Len(ExprText) : ~IsSpace(ExprText[k])}}
    IN  /\ chars # {}
        /\ chars \subseteq Digits \cup {"+", "-", "*", "/", "^", "x", "y", "(", ")"}

\* C18: the family is Trigonometric if the text of the expression contains
\* sin, cos or tan; else Exponential if it contains exp; else Logarithmic
\* if it contains log; else Polynomial if without whitespace it has only
\* digits, + - * / ^, x, y and parentheses; else General.  A text with exp
\* and a trigonometric name is Trigonometric.
C18_FamilyPrecedence ==
    AnalyzeDone =>
        /\ HasTrig => h.out.properties.type = "Trigonometric"
        /\ (~HasTrig /\ HasExp) => h.out.properties.type = "Exponential"
        /\ (~HasTrig /\ ~HasExp /\ HasLog) =>
              h.out.properties.type = "Logarithmic"
        /\ (~HasTrig /\ ~HasExp /\ ~HasLog /\ PolynomialText) =>
              h.out.properties.type = "Polynomial"
        /\ (~HasTrig /\ ~HasExp /\ ~HasLog /\ ~PolynomialText) =>
              h.out.properties.type = "General"

\* exp(x)*tan(y) contains exp and tan and is Trigonometric
C18_Witness ==
    /\ AnalyzeDone
    /\ h.text = TxExpTan
    /\ HasTrig /\ HasExp
    /\ h.out.properties.type = "Trigonometric"

\* x is the only variable of the expression
SoleVariableX == h.parsed.variables = <<<<"x">>>>

ProbeA == evaluateExpression(h.parsed, ScopeX(IntV(1)))
ProbeB == evaluateExpression(h.parsed, ScopeX(IntV(-1)))

\* |a - b| < 1e-10 and |a + b| < 1e-10 on the fractions of the model, whose
\* denominators are far below 10^10: the difference, or the sum, is 0
ProbesEqual ==
    isFinite(ProbeA) /\ isFinite(ProbeB)
    /\ ProbeA.n * ProbeB.d = ProbeB.n * ProbeA.d
ProbesOpposite ==
    isFinite(ProbeA) /\ isFinite(ProbeB)
    /\ ProbeA.n * ProbeB.d = -(ProbeB.n * ProbeA.d)

\* C19: when x is the only variable, with a = f(1) and b = f(-1) the
\* symmetry is even if |a - b| < 1e-10, else odd if |a + b| < 1e-10, else
\* none; the even test goes first (a = b = 0 is even), a NaN probe gives
\* none, x^2 is even and x^3 is odd.
C19_Symmetry ==
    (AnalyzeDone /\ SoleVariableX) =>
        /\ h.out.properties.symmetry =
              ( IF ProbesEqual THEN "Even function (f(-x) = f(x))"
                ELSE IF ProbesOpposite THEN "Odd function (f(-x) = -f(x))"
                ELSE "No obvious symmetry" )
        /\ (ProbeA = NaN \/ ProbeB = NaN) =>
              h.out.properties.symmetry = "No obvious symmetry"
        /\ h.text = TxSquare =>
              h.out.properties.symmetry = "Even function (f(-x) = f(x))"
        /\ h.text = TxCube =>
              h.out.properties.symmetry = "Odd function (f(-x) = -f(x))"

\* x^2 - 1 is 0 at 1 and at -1: both tests pass and the result is even
C19_Witness ==
    /\ AnalyzeDone
    /\ h.text = TxEvenZero
    /\ SoleVariableX
    /\ ProbeA = IntV(0) /\ ProbeB = IntV(0)
    /\ ProbesEqual /\ ProbesOpposite
    /\ h.out.properties.symmetry = "Even function (f(-x) = f(x))"

(***************************************************************************)
(* Properties of the four stages together (SpecStages)                     *)
(***************************************************************************)
StagesDone == h.fn = "stages" /\ h.done

StageIndex == 1..h.resolution

\* a ParsedExpression: valid, or invalid with a message
IsParsedExpression(p) ==
    /\ DOMAIN p = ParsedExpressionFields
    /\ p.isValid \in BOOLEAN
    /\ p.isValid \/ p.errorMessage # NoMessage

\* three grids of the resolution, numbers in x and y, numbers or null in z
IsMesh(m) ==
    /\ DOMAIN m = {"x", "y", "z"}
    /\ \A g \in {m.x, m.y, m.z} :
          Len(g) = h.resolution /\ \A i \in StageIndex : Len(g[i]) = h.resolution
    /\ \A i \in StageIndex : \A j \in StageIndex :
          /\ IsNumberType(m.x[i][j]) /\ IsNumberType(m.y[i][j])
          /\ m.z[i][j].k \in {"num", "null"}

\* an optional derivative text
IsDerivativeField(f) == f = Absent \/ (f.present /\ f = Present(f.text))

IsCriticalPoint(p) ==
    /\ IsNumberType(p.x) /\ IsNumberType(p.y) /\ isFinite(p.z)
    /\ p.type \in {"minimum", "maximum", "saddle", "unknown"}

IsAnalysis(a) ==
    /\ DOMAIN a = {"derivatives", "criticalPoints", "limits", "properties"}
    /\ DOMAIN a.derivatives = {"fx", "fy", "fxx", "fyy", "fxy"}
    /\ \A f \in DOMAIN a.derivatives : IsDerivativeField(a.derivatives[f])
    /\ \A i \in 1..Len(a.criticalPoints) : IsCriticalPoint(a.criticalPoints[i])
    /\ a.properties.type \in
          {"Trigonometric", "Exponential", "Logarithmic", "Polynomial", "General"}

LastParseFailed ==
    mounted /\ parsedExpression # Null /\ ~parsedExpression.isValid

\* handleEquationChange has run and its last text parsed
LastParseSucceeded ==
    mounted /\ parsedExpression # Null /\ parsedExpression.isValid

\* C21: after handleEquationChange with a text whose parse fails the error
\* value handed to FloatingControls is not null, and it is null again after
\* the next text that parses.
C21_ErrorShown ==
    /\ LastParseFailed => error # NullError
    /\ LastParseSucceeded => error = NullError

\* what the code keeps: the error value is null after a text that parses
C21_ErrorNullAfterValid == LastParseSucceeded => error = NullError

\* "2 +" is typed: the parse fails with a message in the ParsedExpression
\* and the error value stays null
C21_SilentFailure ==
    /\ LastParseFailed
    /\ config.equation = TxBroken
    /\ parsedExpression.errorMessage # NoMessage
    /\ error = NullError

(***************************************************************************)
(* Properties of the stages on an invalid ParsedExpression (SpecStages)    *)
(***************************************************************************)
AllCellsNull ==
    \A i \in StageIndex : \A j \in StageIndex : h.mesh.z[i][j] = NullValue

AllFieldsAbsent ==
    \A f \in {"fx", "fy", "fxx", "fyy", "fxy"} :
        ~h.analysis.derivatives[f].present

\* C22: for a ParsedExpression with isValid = false evaluateExpression
\* returns NaN for every binding (not the value 0 of the placeholder),
\* every z cell of the mesh is null, calculateDerivatives leaves all five
\* fields absent and findCriticalPoints returns the empty sequence.
C22_InvalidDegrades ==
    (StagesDone /\ ~h.parsed.isValid) =>
        /\ h.value = NaN
        /\ AllCellsNull
        /\ AllFieldsAbsent
        /\ h.analysis.criticalPoints = <<>>

\* "2 +" on [0, 3] x [0, 3]: the placeholder evaluates to 0 and none of the
\* stages uses it
C22_Witness ==
    /\ StagesDone
    /\ h.text = TxBroken
    /\ ~h.parsed.isValid
    /\ h.scope = "xy" /\ h.x = IntV(0)
    /\ h.xMin = IntV(0) /\ h.xMax = IntV(3)
    /\ h.yMin = IntV(0) /\ h.yMax = IntV(3)
    /\ Evaluate(h.parsed.node, ScopeXY(h.x, h.x)) = IntV(0)
    /\ h.value = NaN
    /\ AllCellsNull /\ AllFieldsAbsent
    /\ h.analysis.criticalPoints = <<>>

(***************************************************************************)
(* Properties of the equation split on any number of '=' (SpecNormalize)   *)
(***************************************************************************)
\* C23: for every text with at least one '=', two or more included, the
\* text handed to the host parser has no '='.
C23_NoEqualsHandedOver ==
    (NormalizeDone /\ EqualsPositions # {}) => ~includesChar(h.clean, "=")

\* what the code keeps: a text with exactly one '=' is handed over without it
C23_SingleEqualsRemoved ==
    (NormalizeDone /\ Cardinality(EqualsPositions) = 1) =>
        ~includesChar(h.clean, "=")

\* "x==2" splits into three parts and is handed over as it is
C23_DoubleEqualsKept ==
    /\ NormalizeDone
    /\ h.text = <<"x", "=", "=", "2">>
    /\ Len(split(trim(h.text), "=")) = 3
    /\ h.split = h.text
    /\ h.clean = <<"x", "=", "=", "2">>

(***************************************************************************)
(* Properties of the guard of the symmetry probe (SpecAnalyze)             *)
(***************************************************************************)
NoSymmetry == h.out.properties.symmetry = "No obvious symmetry"

\* C24: for every expression whose variables are anything other than
\* exactly x (none, some with y, or x together with another letter) the
\* symmetry is 'no obvious symmetry'.
C24_SymmetryOnlyForSoleX ==
    (AnalyzeDone /\ ~SoleVariableX) => NoSymmetry

\* what the code keeps: no symmetry is reported without x, with y, or when
\* a probe is not a finite number
C24_GuardOfTheProbe ==
    AnalyzeDone =>
        /\ ~IsFree(<<"x">>) => NoSymmetry
        /\ IsFree(<<"y">>) => NoSymmetry
        /\ (~isFinite(ProbeA) \/ ~isFinite(ProbeB)) => NoSymmetry

\* x^2 + E has the variables E and x; the host library knows E, both probes
\* are numbers and the expression is reported even
C24_EvenWithTwoNames ==
    /\ AnalyzeDone
    /\ h.text = TxEuler
    /\ h.parsed.variables = <<<<"E">>, <<"x">>>>
    /\ ProbeA = ProbeB /\ isFinite(ProbeA)
    /\ h.out.properties.symmetry = "Even function (f(-x) = f(x))"

\* x^2 + u has the variables u and x; u has no value, the probes are NaN
\* and no symmetry is reported
C24_UnboundSecondName ==
    /\ AnalyzeDone
    /\ h.text = TxEvenOther
    /\ h.parsed.variables = <<<<"u">>, <<"x">>>>
    /\ ProbeA = NaN
    /\ NoSymmetry

(***************************************************************************)
(* C25: the arguments MathGrapher hands to createMeshData                  *)
(***************************************************************************)
MeshDataCalled == h.fn = "createMeshData"

\* C25: in every state reachable from App's initial state through the
\* controls, a call of createMeshData made by MathGrapher carries a resolution
\* that is a whole number of at least 2 and a ParsedExpression whose isValid
\* is true
C25_MeshCallArguments ==
    MeshDataCalled =>
        /\ h.resolution.k = "num"
        /\ h.resolution.d = 1
        /\ h.resolution.n >= 2
        /\ h.parsedExpr /= Null
        /\ h.parsedExpr.isValid

\* the slider was moved to its lowest position and the mesh was requested
C25_Witness ==
    /\ MeshDataCalled
    /\ h.resolution = IntV(SliderMin)
    /\ config.equation = TxHyperbolic

\* a text that does not parse leaves the plot without a call
C25_NoCallWhenInvalid ==
    /\ mounted
    /\ config.equation = TxBroken
    /\ h = NoCall

ScanEnded == h.fn = "scan" /\ h.pc = "done"

\* (floor((xMax-xMin)/0.5)+1) * (floor((yMax-yMin)/0.5)+1), none when a
\* lower bound is above its upper bound
GridTotal == GridCount(h.xMin, h.xMax) * GridCount(h.yMin, h.yMax)

\* C27: for all finite domain bounds the scan ends, having visited every grid
\* candidate (xMin + 0.5*a, yMin + 0.5*b) inside the domain exactly once; it
\* does not stop at ten collected points and a candidate that raises is
\* skipped without ending the scan
C27_ScanEndsWithEveryCandidate ==
    <>(ScanEnded /\ (h.entered => h.visits = GridTotal))

\* a scan that ends has visited every grid candidate once, whatever it
\* collected and whatever raised
C27_VisitsWhenEnded ==
    (ScanEnded /\ h.entered) => h.visits = GridTotal

\* with upper bounds below LargeBound the scan ends
C27_OrdinaryBoundsEnd ==
    (h.xMax.n < LargeBound /\ h.yMax.n < LargeBound) ~> ScanEnded

\* the scan ended with more than ten points collected
C27_MoreThanTenCollected ==
    ScanEnded /\ h.pushed > MaxPoints /\ h.visits = GridTotal

\* the scan ended although every candidate raised
C27_RaisedAndEnded ==
    ScanEnded /\ h.raised > 0 /\ h.raised = h.visits /\ h.visits = GridTotal

\* the inner loop stays at y = LargeBound: y + 0.5 rounds back to y
C27_Stalled ==
    /\ h.fn = "scan" /\ h.pc = "inner"
    /\ h.y = IntV(LargeBound) /\ h.yMax = IntV(LargeBound)
    /\ FlAdd(h.y, step) = h.y
    /\ h.visits = MaxVisits
====
